---- MODULE Spec2Model ----
(***************************************************************************)
(* Playback engine of subsonic-tui: the playback actor thread              *)
(* (src/src/player/backend.rs, run_player_thread), the Player handle that  *)
(* feeds its command channel, and the application loop that drains its     *)
(* event channel and orchestrates track-to-track transitions               *)
(* (src/src/app.rs, src/src/ui/components/queue.rs, src/src/main.rs).      *)
(***************************************************************************)
EXTENDS Integers, Sequences, FiniteSets, TLC

(***************************************************************************)
(* Bounds of the model.                                                    *)
(***************************************************************************)
\* longest command channel content the senders are allowed to build up
MaxCmdQ == 2
\* longest event channel content; the actor starts a tick only with room for
\* the two events one tick can emit
MaxEvQ == 2
\* longest play queue
MaxQueueLen == 2
\* the clock stops after this many seconds
MaxTime == 2
\* longest play queue where the queue is edited and reordered
MaxEditLen == 3
\* most messages waiting in either channel of the bridge
MaxBridgeQ == 2
\* most packets in a stream
MaxPackets == 6
\* how far, in hundredths, the arguments of the volume curve lie outside of
\* 0.0 to 1.0
MaxOver == 20

\* the seconds of the clock around the scrobble thresholds of 30 and 240
ScrobbleInstants == {0, 30, 31, 239, 240, 241}
\* seek targets, in seconds
SeekPositions == {0, 1}
\* volume percentages a caller sets
Volumes == {50}
\* current_volume = 0.8 and volume: AtomicU64::new(80)
InitialVolume == 80

\* Option<..>::None for numeric options (Song::duration, current_duration,
\* QueueState::current_index)
None == 0 - 1

\* NowPlayingState::new(): volume: 80
InitialNpVolume == 80

(***************************************************************************)
(* PlayerCommand and PlayerEvent values.  arg is the song of Play, the     *)
(* position of Seek, the percentage of SetVolume.                          *)
(***************************************************************************)
PlayerCommand(type, arg) == [type |-> type, arg |-> arg]
PlayerEvent(type, info) == [type |-> type, info |-> info]

NoCmd == PlayerCommand("None", 0)

VARIABLES
    \* ---- playback actor (run_player_thread) ----
    pc,                 \* position of the actor thread in its loop
    cmd_q,              \* command channel (command_tx -> command_rx)
    event_q,            \* event channel (event_tx -> event_rx)
    is_playing,         \* PlayerStateShared::is_playing
    duration_ms,        \* PlayerStateShared::duration_ms
    position_ms,        \* PlayerStateShared::position_ms
    volume,             \* PlayerStateShared::volume
    sink_empty,         \* Sink::empty() of the current sink
    sink_paused,        \* Sink::is_paused() of the current sink
    current_audio_data, \* None or [song, decodable]
    current_duration,   \* None or seconds
    current_volume,     \* local current_volume, as a percentage
    is_seeking,         \* seek guard
    last_tick_time,     \* None or the Instant, in seconds of the clock
    cmd,                \* the command being handled (Play during its fetch)
    now,                \* Instant::now(), in seconds
    \* ---- history of the actor ----
    recording,          \* the history that is recorded: "actor", "queue", "scrobble",
                        \* "bridge" or none
    handle,             \* the Player handle: whether it was dropped, and the commands
                        \* that were queued when it was
    source,             \* the SymphoniaSource: its packet stream, the next packet,
                        \* and the call of decode_next_frame in progress or returned
    curve,              \* the last call of linear_to_log_volume: argument and result
    auth,               \* the credentials built last and the query parameters made of them
    tick,               \* [cmd, arg, loaded, ok, pre_playing, events, at_check]
    since,              \* the last playback command handled
    \* ---- application loop (main, App) ----
    library,            \* the songs of the server: song -> Song::duration
    app_pc,             \* position of the application loop
    client,             \* App::client is Some
    focus,              \* App::focus: 0 is the library, 1 the queue
    selected,           \* QueueState::list_state.selected(), None or 0-based
    np_song,            \* NowPlayingState::current_song, None or the song
    np_position,        \* NowPlayingState::position, seconds
    np_duration,        \* NowPlayingState::duration, seconds
    np_volume,          \* NowPlayingState::volume
    np_shuffle,         \* NowPlayingState::shuffle
    scrobbled,          \* NowPlayingState::scrobbled
    songs,              \* QueueState::songs
    current_index,      \* QueueState::current_index, None or 0-based
    np_state,           \* NowPlayingState::state
    repeat,             \* NowPlayingState::repeat
    events,             \* Tick: the events collected and not yet handled
    mpris_state,        \* MprisState::player_state
    bridge,             \* the other fields of MprisState, the commands the last
                        \* sync_mpris_state sent to the bridge, and the last event
                        \* received from it with its intent
    mpris,              \* the bridge thread: its position, its two channels and
                        \* whether the MprisHandle was dropped
    \* ---- history of the application loop ----
    te,                 \* the TrackEnded handled by the last step, if any
    te_run,             \* TrackEnded events handled in a row from no cursor
    ui,                 \* events handled, statuses published and the position
                        \* of the scrobble intent sent, this tick
    scrobbles,          \* scrobble intents sent since the last set_song
    qe                  \* the last edit of the queue and the queue before it

chan_vars == <<cmd_q, event_q>>
shared_vars == <<is_playing, duration_ms, position_ms, volume>>
sink_vars == <<sink_empty, sink_paused>>
local_vars == <<current_audio_data, current_duration, current_volume, is_seeking,
                last_tick_time, cmd>>
\* what the actor never writes
env_vars == <<recording, handle, source, curve, auth>>
hist_vars == <<env_vars, tick, since>>
actor_vars == <<pc, chan_vars, shared_vars, sink_vars, local_vars, now, hist_vars>>

queue_vars == <<songs, current_index>>
select_vars == <<focus, selected>>
np_vars == <<np_song, np_position, np_duration, scrobbled, scrobbles>>
edit_vars == <<select_vars, np_shuffle, qe>>
mpris_vars == <<mpris_state, bridge, mpris>>
app_vars == <<library, app_pc, client, queue_vars, np_state, repeat, events,
              mpris_vars, te, te_run, ui, np_vars, np_volume, edit_vars>>

\* the songs of the library
Songs == DOMAIN library
\* Song::duration (library metadata), None if the server declares none
SongDuration(s) == library[s]

vars == <<actor_vars, app_vars>>

NoAudio == [song |-> None, decodable |-> FALSE]
AudioData(s, d) == [song |-> s, decodable |-> d]

NoTick == [cmd |-> "None", arg |-> 0, loaded |-> FALSE, ok |-> FALSE,
           pre_playing |-> FALSE, events |-> <<>>, at_check |-> <<>>]

\* the last playback command handled (Play, Pause, Resume, Stop, Seek): its
\* type, whether it took effect, the clock and the position when it did, and
\* whether a Stop took effect with no Play succeeding since
Handled(type, ok, at, pos, stopped) ==
    [cmd |-> type, ok |-> ok, at |-> at, pos |-> pos, stopped |-> stopped]

NoneHandled == Handled("None", FALSE, 0, 0, FALSE)

(***************************************************************************)
(* Channel primitives.                                                     *)
(***************************************************************************)
\* UnboundedSender::send on the command channel
SendCmd(q, type, arg) == Append(q, PlayerCommand(type, arg))

\* a receive that hands out the newest message instead of the oldest
TryRecvNewest(q) == q[Len(q)]

\* UnboundedReceiver::try_recv: the oldest message
TryRecv(q) == Head(q)

\* no source has been built
NoSource == [pc |-> "none", stream |-> <<>>, at |-> 1, from |-> 1, retries |-> 0,
             caller |-> "none", result |-> "none"]

\* linear_to_log_volume has not been called
NoCurve == [linear |-> None, amplitude |-> None]

\* no credentials built yet, no query parameters made
NoAuth == [given |-> <<>>, auth |-> [kind |-> "none"], params |-> <<>>]

\* the Player handle is held by its owner
Held == [dropped |-> FALSE, left |-> <<>>]

\* the Player handle was dropped while the commands q were queued
Dropped(q) == [dropped |-> TRUE, left |-> q]

\* event_tx.send(..) of the actor, for each event of es in turn: a send to a
\* dropped receiver fails and its result is ignored
Emit(q, es) == IF handle.dropped THEN q ELSE q \o es

\* the events es emitted in this tick
Noted(t, es) == [t EXCEPT !.events = @ \o es]

\* the history of the tick becomes t, where it is recorded
TickIs(t) == tick' = IF recording = "actor" THEN t ELSE tick

\* the last playback command handled becomes h, where it is recorded
SinceIs(h) == since' = IF recording = "actor" THEN h ELSE since

StateChanged(state) == PlayerEvent("StateChanged", state)
Error(msg) == PlayerEvent("Error", msg)
TrackEnded == PlayerEvent("TrackEnded", "")
\* PlayerEvent::Progress { position, duration }: milliseconds and seconds
Progress(position, duration) ==
    PlayerEvent("Progress", [position |-> position, duration |-> duration])

ActorInit ==
    /\ pc = "init"
    /\ cmd_q = <<>>
    /\ event_q = <<>>
    /\ is_playing = FALSE
    /\ duration_ms = 0
    /\ position_ms = 0
    /\ volume = InitialVolume
    /\ sink_empty = TRUE
    /\ sink_paused = FALSE
    /\ current_audio_data = NoAudio
    /\ current_duration = None
    /\ current_volume = InitialVolume
    /\ is_seeking = FALSE
    /\ last_tick_time = None
    /\ cmd = NoCmd
    /\ now = 0
    /\ handle = Held
    /\ source = NoSource
    /\ curve = NoCurve
    /\ auth = NoAuth
    /\ tick = NoTick
    /\ since = NoneHandled

(***************************************************************************)
(* The audio output (rodio Sink) and the clock as the actor sees them.     *)
(***************************************************************************)
\* Sink::try_new: a fresh sink holds no source and is not paused
NewSink ==
    /\ sink_empty' = TRUE
    /\ sink_paused' = FALSE

\* the output device plays the appended source to its end
SinkDrain ==
    /\ ~sink_empty
    /\ ~sink_paused
    /\ sink_empty' = TRUE
    /\ UNCHANGED <<pc, chan_vars, shared_vars, sink_paused, local_vars, now, hist_vars>>
    /\ UNCHANGED app_vars

\* the instants at which the clock is read: every second up to MaxTime, or,
\* where a track plays for minutes, the seconds around the scrobble thresholds
Instants == IF recording = "scrobble" THEN ScrobbleInstants ELSE 0..MaxTime

\* the first instant after t
InstantAfter(t) == CHOOSE i \in Instants : i > t /\ \A j \in Instants : j > t => i <= j

\* the audio of a song lasts no longer than the duration the server declares
\* for it: a sink that plays it has drained by then
AudioLasts(t) ==
    (is_playing /\ ~sink_empty /\ ~sink_paused /\ last_tick_time # None
        /\ current_duration # None)
        => position_ms + (t - last_tick_time) * 1000 <= current_duration * 1000

\* time passes up to the next instant: in the thread's sleep, in a blocking
\* fetch, or anywhere between two statements
TimePasses ==
    /\ \E i \in Instants : i > now
    /\ AudioLasts(InstantAfter(now))
    /\ now' = InstantAfter(now)
    /\ UNCHANGED <<pc, chan_vars, shared_vars, sink_vars, local_vars, hist_vars>>
    /\ UNCHANGED app_vars

(***************************************************************************)
(* run_player_thread.                                                      *)
(***************************************************************************)
\* OutputStream::try_default()? and Sink::try_new()? before the loop
ActorStart ==
    /\ pc = "init"
    /\ \E device_ok \in BOOLEAN : pc' = IF device_ok THEN "recv" ELSE "exited"
    /\ UNCHANGED <<chan_vars, shared_vars, sink_vars, local_vars, now, hist_vars>>
    /\ UNCHANGED app_vars

\* the actor is at the top of its loop, with room for this tick's events
AtRecv == pc = "recv" /\ Len(event_q) + 1 < MaxEvQ

\* the command try_recv returns is of this type
Receives(type) == AtRecv /\ cmd_q # <<>> /\ TryRecv(cmd_q).type = type

\* what try_recv leaves in the channel
Dequeued == cmd_q' = Tail(cmd_q)

StartTick(c) == [cmd |-> c.type, arg |-> c.arg,
                 loaded |-> current_audio_data # NoAudio,
                 ok |-> FALSE, pre_playing |-> is_playing, events |-> <<>>,
                 at_check |-> <<>>]

\* Err(TryRecvError::Empty)
RecvEmpty ==
    /\ AtRecv
    /\ cmd_q = <<>>
    /\ ~handle.dropped
    /\ pc' = "check"
    /\ TickIs(NoTick)
    /\ UNCHANGED <<chan_vars, shared_vars, sink_vars, local_vars, now, env_vars, since>>
    /\ UNCHANGED app_vars

\* PlayerCommand::Play up to the blocking fetch: the sink is stopped and
\* replaced and the declared duration is stored
HandlePlay ==
    /\ Receives("Play")
    /\ Dequeued
    /\ \E device_ok \in BOOLEAN :
         IF device_ok
         THEN /\ NewSink
              /\ current_duration' = SongDuration(TryRecv(cmd_q).arg)
              /\ duration_ms' = IF SongDuration(TryRecv(cmd_q).arg) # None
                                THEN SongDuration(TryRecv(cmd_q).arg) * 1000
                                ELSE duration_ms
              /\ cmd' = TryRecv(cmd_q)
              /\ pc' = "fetch"
         ELSE /\ pc' = "exited"
              /\ UNCHANGED <<sink_vars, current_duration, duration_ms, cmd>>
    /\ TickIs(StartTick(TryRecv(cmd_q)))
    /\ SinceIs(Handled("Play", FALSE, 0, 0, since.stopped))
    /\ UNCHANGED <<event_q, is_playing, position_ms, volume, current_audio_data,
                   current_volume, is_seeking, last_tick_time, now, env_vars>>
    /\ UNCHANGED app_vars

\* a Play that leaves the estimator without a reference
PlayReferenceUnset == None

\* Play: last_tick_time = Some(Instant::now()) once the source is appended
PlayReference == now

\* fetch_audio_data returns and play_audio_data runs on the payload
PlayFetched ==
    /\ pc = "fetch"
    /\ pc' = "check"
    /\ cmd' = NoCmd
    /\ \E fetched \in BOOLEAN, decodable \in BOOLEAN :
         IF ~fetched
         THEN /\ event_q' = Emit(event_q, <<Error("fetch")>>)
              /\ TickIs(Noted(tick, <<Error("fetch")>>))
              /\ UNCHANGED <<current_audio_data, sink_vars, is_playing, position_ms,
                             last_tick_time, since>>
         ELSE /\ current_audio_data' = AudioData(cmd.arg, decodable)
              /\ IF decodable
                 THEN /\ sink_empty' = FALSE
                      /\ sink_paused' = FALSE
                      /\ is_playing' = TRUE
                      /\ position_ms' = 0
                      /\ last_tick_time' = PlayReference
                      /\ event_q' = Emit(event_q, <<StateChanged("Playing")>>)
                      /\ TickIs([Noted(tick, <<StateChanged("Playing")>>)
                                   EXCEPT !.ok = TRUE])
                      /\ SinceIs(Handled("Play", TRUE, now, 0, FALSE))
                 ELSE /\ event_q' = Emit(event_q, <<Error("decode")>>)
                      /\ TickIs(Noted(tick, <<Error("decode")>>))
                      /\ UNCHANGED <<sink_vars, is_playing, position_ms, last_tick_time,
                                     since>>
    /\ UNCHANGED <<cmd_q, duration_ms, volume, current_duration, current_volume,
                   is_seeking, now, env_vars>>
    /\ UNCHANGED app_vars

\* a Pause that pauses the sink and leaves is_playing as it was
PauseKeepsPlaying == is_playing

\* Pause: state.is_playing.store(false)
PausePlaying == FALSE

\* Pause: last_tick_time = None, "Stop tracking time while paused"
PauseReference == None

\* PlayerCommand::Pause
HandlePause ==
    /\ Receives("Pause")
    /\ Dequeued
    /\ sink_paused' = TRUE
    /\ is_playing' = PausePlaying
    /\ last_tick_time' = PauseReference
    /\ event_q' = Emit(event_q, <<StateChanged("Paused")>>)
    /\ TickIs([Noted(StartTick(TryRecv(cmd_q)), <<StateChanged("Paused")>>)
                 EXCEPT !.ok = TRUE])
    /\ SinceIs(Handled("Pause", TRUE, now, position_ms, since.stopped))
    /\ pc' = "check"
    /\ UNCHANGED <<duration_ms, position_ms, volume, sink_empty, current_audio_data,
                   current_duration, current_volume, is_seeking, cmd, now, env_vars>>
    /\ UNCHANGED app_vars

\* a Resume that keeps the reference point it found, or the start of the run
ResumeReferenceKept == IF last_tick_time # None THEN last_tick_time ELSE 0

\* Resume: last_tick_time = Some(Instant::now()), "Resume tracking"
ResumeReference == now

\* PlayerCommand::Resume
HandleResume ==
    /\ Receives("Resume")
    /\ Dequeued
    /\ sink_paused' = FALSE
    /\ is_playing' = TRUE
    /\ last_tick_time' = ResumeReference
    /\ event_q' = Emit(event_q, <<StateChanged("Playing")>>)
    /\ TickIs([Noted(StartTick(TryRecv(cmd_q)), <<StateChanged("Playing")>>)
                 EXCEPT !.ok = TRUE])
    /\ SinceIs(Handled("Resume", TRUE, now, position_ms, since.stopped))
    /\ pc' = "check"
    /\ UNCHANGED <<duration_ms, position_ms, volume, sink_empty, current_audio_data,
                   current_duration, current_volume, is_seeking, cmd, now, env_vars>>
    /\ UNCHANGED app_vars

\* Stop: current_audio_data = None
StopAudio == NoAudio

\* PlayerCommand::Stop
HandleStop ==
    /\ Receives("Stop")
    /\ Dequeued
    /\ \E device_ok \in BOOLEAN :
         IF device_ok
         THEN /\ NewSink
              /\ current_audio_data' = StopAudio
              /\ is_playing' = FALSE
              /\ position_ms' = 0
              /\ last_tick_time' = None
              /\ event_q' = Emit(event_q, <<StateChanged("Stopped")>>)
              /\ TickIs([Noted(StartTick(TryRecv(cmd_q)), <<StateChanged("Stopped")>>)
                           EXCEPT !.ok = TRUE])
              /\ SinceIs(Handled("Stop", TRUE, 0, 0, TRUE))
              /\ pc' = "check"
         ELSE /\ pc' = "exited"
              /\ TickIs(StartTick(TryRecv(cmd_q)))
              /\ SinceIs(Handled("Stop", FALSE, 0, 0, since.stopped))
              /\ UNCHANGED <<sink_vars, current_audio_data, is_playing, position_ms,
                             last_tick_time, event_q>>
    /\ UNCHANGED <<duration_ms, volume, current_duration, current_volume, is_seeking,
                   cmd, now, env_vars>>
    /\ UNCHANGED app_vars

\* PlayerCommand::SetVolume
HandleSetVolume ==
    /\ Receives("SetVolume")
    /\ Dequeued
    /\ current_volume' = TryRecv(cmd_q).arg
    /\ TickIs([StartTick(TryRecv(cmd_q)) EXCEPT !.ok = TRUE])
    /\ pc' = "check"
    /\ UNCHANGED <<event_q, shared_vars, sink_vars, current_audio_data,
                   current_duration, is_seeking, last_tick_time, cmd, now, env_vars,
                   since>>
    /\ UNCHANGED app_vars

\* a Seek that leaves the freshly started output playing whatever the state was
SeekAlwaysResumes(was_playing) == TRUE

\* Seek, "Restore previous play/pause state": is_playing after a successful
\* play_audio_data, given was_playing
SeekRestoresPlaying(was_playing) == was_playing

\* a Seek that reports the restored state in both branches
SeekAlwaysReports(was_playing) ==
    IF was_playing THEN <<StateChanged("Playing")>> ELSE <<StateChanged("Paused")>>

\* Seek: the events sent while restoring the play/pause state
SeekStateEvents(was_playing) ==
    IF was_playing THEN <<>> ELSE <<StateChanged("Paused")>>

\* play_audio_data(audio_data, .., position) of a Seek: SymphoniaSource::new
\* on the buffered payload, then source.seek for a position past zero
SeekSucceeds(audio, position, seek_ok) ==
    audio.decodable /\ (position = 0 \/ seek_ok)

\* PlayerCommand::Seek
HandleSeek ==
    /\ Receives("Seek")
    /\ Dequeued
    /\ IF current_audio_data # NoAudio
       THEN /\ is_seeking' = TRUE
            /\ \E device_ok \in BOOLEAN, seek_ok \in BOOLEAN :
                 IF ~device_ok
                 THEN /\ pc' = "exited"
                      /\ TickIs(StartTick(TryRecv(cmd_q)))
                      /\ SinceIs(Handled("Seek", FALSE, 0, 0, since.stopped))
                      /\ UNCHANGED <<sink_vars, is_playing, position_ms, last_tick_time,
                                     event_q>>
                 ELSE /\ pc' = "check"
                      /\ IF SeekSucceeds(current_audio_data, TryRecv(cmd_q).arg, seek_ok)
                         THEN /\ sink_empty' = FALSE
                              /\ sink_paused' = ~SeekRestoresPlaying(is_playing)
                              /\ is_playing' = SeekRestoresPlaying(is_playing)
                              /\ position_ms' = TryRecv(cmd_q).arg * 1000
                              /\ last_tick_time' = IF SeekRestoresPlaying(is_playing)
                                                   THEN now ELSE None
                              /\ event_q' = Emit(event_q, SeekStateEvents(is_playing))
                              /\ TickIs([Noted(StartTick(TryRecv(cmd_q)),
                                               SeekStateEvents(is_playing))
                                           EXCEPT !.ok = TRUE])
                              /\ SinceIs(Handled("Seek", TRUE, now,
                                                 TryRecv(cmd_q).arg * 1000, since.stopped))
                         ELSE /\ NewSink
                              /\ event_q' = Emit(event_q, <<Error("seek")>>)
                              /\ TickIs(Noted(StartTick(TryRecv(cmd_q)), <<Error("seek")>>))
                              /\ SinceIs(Handled("Seek", FALSE, 0, 0, since.stopped))
                              /\ UNCHANGED <<is_playing, position_ms, last_tick_time>>
       ELSE /\ pc' = "check"
            /\ TickIs(StartTick(TryRecv(cmd_q)))
            /\ SinceIs(Handled("Seek", FALSE, 0, 0, since.stopped))
            /\ UNCHANGED <<is_seeking, sink_vars, is_playing, position_ms, last_tick_time,
                           event_q>>
    /\ UNCHANGED <<duration_ms, volume, current_audio_data, current_duration,
                   current_volume, cmd, now, env_vars>>
    /\ UNCHANGED app_vars

\* a track-end check without the seek guard
TrackEndUnguarded == sink_empty /\ is_playing

\* the condition of the track-end check
TrackEndCondition == ~is_seeking /\ sink_empty /\ is_playing

\* a track-end check that leaves is_playing as it was
PlayingNotCleared == is_playing

\* is_playing after the track-end check
PlayingAfterCheck == is_playing /\ ~TrackEndCondition

\* the seek guard after the track-end check
GuardAfterCheck == FALSE

\* the progress update adds the elapsed time to the position
AddsElapsed(playing) == playing /\ last_tick_time # None

\* last_time.elapsed().as_millis()
ElapsedMs == (now - last_tick_time) * 1000

\* the position after the progress update
PositionAfterUpdate(playing) ==
    IF AddsElapsed(playing) THEN position_ms + ElapsedMs ELSE position_ms

\* the progress update sends a Progress event
SendsProgress(playing) == AddsElapsed(playing) /\ current_duration # None

\* the rest of a loop tick: track-end check, guard reset, progress update, sleep
EndOfTick ==
    /\ pc = "check"
    /\ pc' = "recv"
    /\ is_seeking' = GuardAfterCheck
    /\ is_playing' = PlayingAfterCheck
    /\ position_ms' = PositionAfterUpdate(PlayingAfterCheck)
    /\ LET es == (IF TrackEndCondition THEN <<TrackEnded>> ELSE <<>>)
                 \o (IF SendsProgress(PlayingAfterCheck)
                     THEN <<Progress(PositionAfterUpdate(PlayingAfterCheck),
                                     current_duration)>>
                     ELSE <<>>)
       IN  /\ event_q' = Emit(event_q, es)
           /\ TickIs([Noted(tick, es)
                        EXCEPT !.at_check = <<sink_empty, is_playing, is_seeking>>])
    /\ last_tick_time' = IF PlayingAfterCheck THEN now ELSE last_tick_time
    /\ UNCHANGED <<cmd_q, duration_ms, volume, sink_vars, current_audio_data,
                   current_duration, current_volume, cmd, now, env_vars, since>>
    /\ UNCHANGED app_vars

(***************************************************************************)
(* The Player handle: its senders and the event receiver.                  *)
(***************************************************************************)
\* the percentages n for which ((n as f32 / 100.0) * 100.0) as u64 is n - 1
RoundedDown == {53, 59, 105, 106, 117, 118, 209, 210, 211, 212, 234, 235, 236, 237}

\* a Player::set_volume that leaves the shared volume for the actor to write
VolumeLeftToActor(n) == volume

\* Player::set_volume(n as f32 / 100.0): the percentage stored in the
\* shared volume, (volume * 100.0) as u64
VolumeStored(n) == IF n \in RoundedDown THEN n - 1 ELSE n

\* the commands a Player method can send
CommandInputs ==
    ({"Play"} \X Songs) \cup ({"Pause", "Resume", "Stop"} \X {0})
        \cup ({"SetVolume"} \X Volumes) \cup ({"Seek"} \X SeekPositions)

\* Player::play / pause / resume / stop / seek, and Player::set_volume, which
\* also stores the shared volume
PlayerSend(type, arg) ==
    /\ ~handle.dropped
    /\ pc # "exited"
    /\ Len(cmd_q) < MaxCmdQ
    /\ cmd_q' = SendCmd(cmd_q, type, arg)
    /\ volume' = IF type = "SetVolume"
                 THEN VolumeStored(arg)
                 ELSE volume

\* some caller invokes a Player method
Send ==
    /\ \E c \in CommandInputs : PlayerSend(c[1], c[2])
    /\ UNCHANGED <<pc, event_q, is_playing, duration_ms, position_ms, sink_vars,
                   local_vars, now, hist_vars>>
    /\ UNCHANGED app_vars

\* Player::try_recv_event returning Some(event)
TryRecvEvent ==
    /\ ~handle.dropped
    /\ event_q # <<>>
    /\ event_q' = Tail(event_q)
    /\ UNCHANGED <<pc, cmd_q, shared_vars, sink_vars, local_vars, now, hist_vars>>
    /\ UNCHANGED app_vars

\* a loop that treats a dropped handle as the end, whatever is still queued
RecvDisconnectedAtOnce ==
    /\ AtRecv
    /\ handle.dropped
    /\ pc' = "done"
    /\ UNCHANGED <<chan_vars, shared_vars, sink_vars, local_vars, now, hist_vars>>
    /\ UNCHANGED app_vars

\* Err(TryRecvError::Disconnected): the handle was dropped and no command is
\* left in the channel; the loop is left and the thread returns Ok(())
RecvDisconnected ==
    /\ AtRecv
    /\ cmd_q = <<>>
    /\ handle.dropped
    /\ pc' = "done"
    /\ UNCHANGED <<chan_vars, shared_vars, sink_vars, local_vars, now, hist_vars>>
    /\ UNCHANGED app_vars

\* the owner drops the Player: the command sender and the event receiver,
\* with the events still in it, are gone
DropHandle ==
    /\ ~handle.dropped
    /\ handle' = Dropped(cmd_q)
    /\ event_q' = <<>>
    /\ UNCHANGED <<pc, cmd_q, shared_vars, sink_vars, local_vars, now, recording,
                   source, curve, auth, tick, since>>
    /\ UNCHANGED app_vars

(***************************************************************************)
(* SymphoniaSource: the packets of a stream are decoded into frames.       *)
(***************************************************************************)
\* a packet decodes, fails to decode, or belongs to another track
PacketKinds == {"ok", "bad", "other"}

\* the packet streams of at most MaxPackets packets
Streams == UNION {[1..n -> PacketKinds] : n \in 0..MaxPackets}

\* const MAX_RETRIES
MAX_RETRIES == 3

\* a decoder that counts the packets of other tracks as failures
CountsOtherTrack(kind) == kind # "ok"

\* decode_next_frame: the packets that count towards MAX_RETRIES
CountsAsRetry(kind) == kind = "bad"

\* decode_next_frame is entered by caller: retries = 0
Called(src, caller) ==
    [src EXCEPT !.pc = "loop", !.from = src.at, !.retries = 0, !.caller = caller,
                !.result = "none"]

\* decode_next_frame returns r: SymphoniaSource::new ignores the result,
\* Iterator::next returns None on false, which ends the source
Returned(src, r) ==
    [src EXCEPT !.pc = IF src.caller = "next" /\ ~r THEN "ended" ELSE "idle",
                !.result = IF r THEN "true" ELSE "false"]

\* SymphoniaSource::new(data), which decodes the first frame
SourceNew ==
    /\ source.pc = "none"
    /\ \E st \in Streams : source' = Called([NoSource EXCEPT !.stream = st], "new")
    /\ UNCHANGED <<pc, chan_vars, shared_vars, sink_vars, local_vars, now, recording,
                   handle, curve, auth, tick, since>>
    /\ UNCHANGED app_vars

\* Iterator::next once the samples of the buffer are consumed
SourceNext ==
    /\ source.pc = "idle"
    /\ source' = Called(source, "next")
    /\ UNCHANGED <<pc, chan_vars, shared_vars, sink_vars, local_vars, now, recording,
                   handle, curve, auth, tick, since>>
    /\ UNCHANGED app_vars

\* one iteration of the loop of decode_next_frame
DecodeStep ==
    /\ source.pc = "loop"
    /\ IF source.at > Len(source.stream)
       THEN source' = Returned(source, FALSE)
       ELSE LET kind == source.stream[source.at]
                read == [source EXCEPT !.at = @ + 1]
            IN  IF kind = "ok" THEN source' = Returned(read, TRUE)
                ELSE IF CountsAsRetry(kind)
                THEN IF source.retries + 1 >= MAX_RETRIES
                     THEN source' = Returned([read EXCEPT !.retries = @ + 1], FALSE)
                     ELSE source' = [read EXCEPT !.retries = @ + 1]
                ELSE source' = read
    /\ UNCHANGED <<pc, chan_vars, shared_vars, sink_vars, local_vars, now, recording,
                   handle, curve, auth, tick, since>>
    /\ UNCHANGED app_vars

(***************************************************************************)
(* linear_to_log_volume.  The argument is in hundredths and the result in  *)
(* thousandths, rounded down.                                              *)
(***************************************************************************)
\* the arguments: from below 0.0 to above 1.0
CurveInputs == (0 - MaxOver)..(100 + MaxOver)

\* n^5 / 10^4 rounded down, in parts that stay within 32 bits
FifthPower(n) ==
    n * n * ((n * n * n) \div 10000) + (n * n * ((n * n * n) % 10000)) \div 10000

\* linear.powf(2.5) for linear = n / 100: the thousandths r with
\* (r / 1000)^2 <= (n / 100)^5 < ((r + 1) / 1000)^2
Powf(n) ==
    CHOOSE r \in 0..2000 : r * r <= FifthPower(n) /\ (r + 1) * (r + 1) > FifthPower(n)

\* a curve that is not clamped at 1.0
LinearToLogVolumeOpen(n) ==
    IF n <= 0 THEN 0 ELSE Powf(n)

\* linear_to_log_volume(n / 100)
LinearToLogVolume(n) ==
    IF n <= 0 THEN 0
    ELSE IF n >= 100 THEN 1000
    ELSE Powf(n)

\* linear_to_log_volume is called on some argument
CurveCall ==
    /\ \E n \in CurveInputs :
         curve' = [linear |-> n, amplitude |-> LinearToLogVolume(n)]
    /\ UNCHANGED <<pc, chan_vars, shared_vars, sink_vars, local_vars, now, recording,
                   handle, source, auth, tick, since>>
    /\ UNCHANGED app_vars

\* ---------------------------------------------------------------------------
\* Credentials (client/auth.rs)
\* ---------------------------------------------------------------------------

\* strings are sequences of characters
Usernames == {<<"a">>, <<"b">>, <<"a", "b">>}
Passwords == {<<"x">>, <<"x", "0">>, <<>>}
ApiKeys == {<<"k">>, <<"k", "1">>, <<"u">>}

\* generate_salt: characters of 0-9a-z, chosen at random
Salts == {<<"0">>, <<"z">>, <<"0", "z">>, <<"z", "0">>, <<"9", "a">>}

\* the digest of a byte string, printed in hexadecimal
Md5Hex(bytes) == <<"md5", bytes>>

\* generate_token: md5(password + salt)
GenerateToken(password, salt) == Md5Hex(password \o salt)

\* Auth::Token, Auth::ApiKey, Auth::Password
TokenAuth(username, token, salt) ==
    [kind |-> "Token", username |-> username, token |-> token, salt |-> salt]
ApiKeyAuth(api_key) == [kind |-> "ApiKey", api_key |-> api_key]
PasswordAuth(username, password) ==
    [kind |-> "Password", username |-> username, password |-> password]

\* query parameters with the salt first
QueryParamsSaltFirst(a) ==
    IF a.kind = "Token"
    THEN <<<<"s", a.salt>>, <<"t", a.token>>, <<"u", a.username>>>>
    ELSE IF a.kind = "ApiKey"
    THEN <<<<"apiKey", a.api_key>>>>
    ELSE <<<<"u", a.username>>, <<"p", a.password>>>>

\* Auth::query_params
QueryParams(a) ==
    IF a.kind = "Token"
    THEN <<<<"u", a.username>>, <<"t", a.token>>, <<"s", a.salt>>>>
    ELSE IF a.kind = "ApiKey"
    THEN <<<<"apiKey", a.api_key>>>>
    ELSE <<<<"u", a.username>>, <<"p", a.password>>>>

auth_rest == <<pc, chan_vars, shared_vars, sink_vars, local_vars, now, recording,
               handle, source, curve, tick, since>>

\* Auth::from_password
FromPassword ==
    /\ \E username \in Usernames, password \in Passwords, salt \in Salts :
         auth' = [given |-> [username |-> username, password |-> password],
                  auth |-> TokenAuth(username, GenerateToken(password, salt), salt),
                  params |-> <<>>]
    /\ UNCHANGED auth_rest
    /\ UNCHANGED app_vars

\* Auth::from_api_key
FromApiKey ==
    /\ \E api_key \in ApiKeys :
         auth' = [given |-> [api_key |-> api_key],
                  auth |-> ApiKeyAuth(api_key),
                  params |-> <<>>]
    /\ UNCHANGED auth_rest
    /\ UNCHANGED app_vars

\* Auth::from_legacy_password
FromLegacyPassword ==
    /\ \E username \in Usernames, password \in Passwords :
         auth' = [given |-> [username |-> username, password |-> password],
                  auth |-> PasswordAuth(username, password),
                  params |-> <<>>]
    /\ UNCHANGED auth_rest
    /\ UNCHANGED app_vars

\* Auth::regenerate: a new salt and token for token credentials, nothing otherwise
Regenerate ==
    /\ auth.auth.kind # "none"
    /\ \E password \in Passwords, salt \in Salts :
         auth' = IF auth.auth.kind = "Token"
                 THEN [given |-> [username |-> auth.given.username, password |-> password],
                       auth |-> TokenAuth(auth.auth.username,
                                          GenerateToken(password, salt), salt),
                       params |-> <<>>]
                 ELSE auth
    /\ UNCHANGED auth_rest
    /\ UNCHANGED app_vars

\* a request asks for the query parameters of the credentials
QueryParamsCall ==
    /\ auth.auth.kind # "none"
    /\ auth' = [auth EXCEPT !.params = QueryParams(auth.auth)]
    /\ UNCHANGED auth_rest
    /\ UNCHANGED app_vars

Actor ==
    \/ ActorStart
    \/ RecvEmpty
    \/ HandlePlay
    \/ PlayFetched
    \/ HandlePause
    \/ HandleResume
    \/ HandleStop
    \/ HandleSetVolume
    \/ HandleSeek
    \/ EndOfTick
    \/ SinkDrain

(***************************************************************************)
(* QueueState (src/src/ui/components/queue.rs).  Indices are 0-based as in *)
(* the source; songs[i + 1] is the song at index i.                        *)
(***************************************************************************)
\* QueueState::current_song
CurrentSong(ss, cur) == IF cur # None /\ cur < Len(ss) THEN ss[cur + 1] ELSE None

\* a next_song that wraps from the last index to the first
NextSongWrapping(ss, cur) ==
    IF ss = <<>> THEN None
    ELSE IF cur = None THEN 0
    ELSE (cur + 1) % Len(ss)

\* QueueState::next_song: the index of the next song, or None
NextSong(ss, cur) ==
    IF cur # None /\ cur + 1 < Len(ss) THEN cur + 1
    ELSE IF cur = None /\ ss # <<>> THEN 0
    ELSE None

\* QueueState::previous_song: the index of the previous song, or None
PreviousSong(ss, cur) == IF cur # None /\ cur > 0 THEN cur - 1 ELSE None

\* QueueState::advance: the cursor afterwards
Advance(ss, cur) == IF NextSong(ss, cur) # None THEN NextSong(ss, cur) ELSE cur

\* QueueState::go_back: the cursor afterwards
GoBack(ss, cur) == IF PreviousSong(ss, cur) # None THEN PreviousSong(ss, cur) ELSE cur

\* QueueState::play_index: the cursor afterwards
PlayIndex(ss, cur, index) == IF index < Len(ss) THEN index ELSE cur

\* Vec::remove(index)
RemoveAt(ss, index) == SubSeq(ss, 1, index) \o SubSeq(ss, index + 2, Len(ss))

\* a remove that leaves the cursor where the removed track was
RemoveCursorKept(ss, cur, index) ==
    IF index < Len(ss) /\ cur # None
    THEN IF index < cur THEN cur - 1 ELSE cur
    ELSE cur

\* QueueState::remove: the cursor afterwards
RemoveCursor(ss, cur, index) ==
    IF index < Len(ss) /\ cur # None
    THEN IF index < cur THEN cur - 1
         ELSE IF index = cur THEN None
         ELSE cur
    ELSE cur

\* QueueState::remove: the selection afterwards, in a queue of length len
RemoveSelection(len, sel, index) ==
    IF index < len
    THEN IF len = 1 THEN None
         ELSE IF sel # None /\ sel >= len - 1 THEN len - 2
         ELSE sel
    ELSE sel

\* QueueState::select_next: the selection afterwards
SelectNext(len, sel) ==
    IF len = 0 THEN sel
    ELSE IF sel = None THEN 0
    ELSE IF sel >= len - 1 THEN 0
    ELSE sel + 1

\* QueueState::select_previous: the selection afterwards
SelectPrevious(len, sel) ==
    IF len = 0 THEN sel
    ELSE IF sel = None THEN 0
    ELSE IF sel = 0 THEN len - 1
    ELSE sel - 1

\* Vec::insert(index, x)
InsertAt(ss, index, x) == SubSeq(ss, 1, index) \o <<x>> \o SubSeq(ss, index + 1, Len(ss))

\* App::move_queue_item: new_index, with saturating_sub and min(len - 1)
MoveTarget(len, index, direction) ==
    IF direction < 0
    THEN IF index + direction < 0 THEN 0 ELSE index + direction
    ELSE IF index + direction < (IF len = 0 THEN 0 ELSE len - 1)
         THEN index + direction
         ELSE (IF len = 0 THEN 0 ELSE len - 1)

\* App::move_queue_item: whether anything moves
Moves(len, index, direction) ==
    MoveTarget(len, index, direction) # index /\ index < len

\* App::move_queue_item: the songs afterwards
MoveSongs(ss, index, direction) ==
    IF Moves(Len(ss), index, direction)
    THEN InsertAt(RemoveAt(ss, index), MoveTarget(Len(ss), index, direction), ss[index + 1])
    ELSE ss

\* a cursor that shifts with the move: up when the item moves down the list
MoveCursorWithMove(len, cur, index, direction) ==
    IF Moves(len, index, direction) /\ cur # None
    THEN LET new_index == MoveTarget(len, index, direction)
         IN  IF cur = index THEN new_index
             ELSE IF direction < 0 /\ cur >= new_index /\ cur < index THEN cur - 1
             ELSE IF direction > 0 /\ cur > index /\ cur <= new_index THEN cur + 1
             ELSE cur
    ELSE cur

\* App::move_queue_item: the cursor afterwards
MoveCursor(len, cur, index, direction) ==
    IF Moves(len, index, direction) /\ cur # None
    THEN LET new_index == MoveTarget(len, index, direction)
         IN  IF cur = index THEN new_index
             ELSE IF direction < 0 /\ cur >= new_index /\ cur < index THEN cur + 1
             ELSE IF direction > 0 /\ cur > index /\ cur <= new_index THEN cur - 1
             ELSE cur
    ELSE cur

\* App::move_queue_item: the selection follows the moved item
MoveSelection(len, sel, index, direction) ==
    IF Moves(len, index, direction) THEN MoveTarget(len, index, direction) ELSE sel

\* the orders SliceRandom::shuffle can leave ss in
Shuffles(ss) ==
    {[i \in 1..Len(ss) |-> ss[f[i]]] :
        f \in {g \in [1..Len(ss) -> 1..Len(ss)] : \A i, j \in 1..Len(ss) : g[i] = g[j] => i = j}}

\* a shuffle that loses the cursor
ShuffleForgetsCursor(ss, cur) ==
    IF Len(ss) <= 1 THEN {<<ss, cur>>}
    ELSE {<<o, None>> : o \in Shuffles(ss)}

\* QueueState::shuffle: the songs and the cursor it can leave
Shuffle(ss, cur) ==
    IF Len(ss) <= 1 THEN {<<ss, cur>>}
    ELSE IF cur # None
    THEN {<<<<ss[cur + 1]>> \o o, 0>> : o \in Shuffles(RemoveAt(ss, cur))}
    ELSE {<<o, cur>> : o \in Shuffles(ss)}

\* a successor that leaves out One
RepeatNextTwoModes(mode) ==
    CASE mode = "Off" -> "All"
      [] mode = "All" -> "Off"
      [] mode = "One" -> "Off"

\* RepeatMode::next
RepeatNext(mode) ==
    CASE mode = "Off" -> "All"
      [] mode = "All" -> "One"
      [] mode = "One" -> "Off"

(***************************************************************************)
(* App::handle_track_ended as a decision: the cursor afterwards, the song  *)
(* handed to play_song (None if none) and whether the application state    *)
(* is set to Stopped.                                                      *)
(***************************************************************************)
Decision(index, play, stop) == [index |-> index, play |-> play, stop |-> stop]

\* a RepeatMode::One that moves on to the next song
TrackEndedOneAdvancing(ss, cur) ==
    Decision(Advance(ss, cur), CurrentSong(ss, Advance(ss, cur)), FALSE)

\* RepeatMode::One: replay the current song
TrackEndedOne(ss, cur) == Decision(cur, CurrentSong(ss, cur), FALSE)

\* a RepeatMode::All that stops at the end of the queue
TrackEndedAllNoWrap(ss, cur) ==
    Decision(Advance(ss, cur), CurrentSong(ss, Advance(ss, cur)), FALSE)

\* RepeatMode::All: advance, or go back to index 0 at the end
TrackEndedAll(ss, cur) ==
    IF NextSong(ss, cur) = None
    THEN Decision(PlayIndex(ss, cur, 0),
                  IF 0 < Len(ss) THEN CurrentSong(ss, PlayIndex(ss, cur, 0)) ELSE None,
                  FALSE)
    ELSE Decision(Advance(ss, cur), CurrentSong(ss, Advance(ss, cur)), FALSE)

\* RepeatMode::Off: advance, or stop at the end
TrackEndedOff(ss, cur) ==
    IF NextSong(ss, cur) # None
    THEN Decision(Advance(ss, cur), CurrentSong(ss, Advance(ss, cur)), FALSE)
    ELSE Decision(cur, None, TRUE)

\* App::handle_track_ended
HandleTrackEnded(mode, ss, cur) ==
    CASE mode = "One" -> TrackEndedOne(ss, cur)
      [] mode = "All" -> TrackEndedAll(ss, cur)
      [] mode = "Off" -> TrackEndedOff(ss, cur)

(***************************************************************************)
(* NowPlayingState (src/src/ui/components/now_playing.rs) and the volume   *)
(* conversions between the application and the Player handle.              *)
(***************************************************************************)
Min(a, b) == IF a < b THEN a ELSE b
Max(a, b) == IF a > b THEN a ELSE b

\* NowPlayingState::should_scrobble
ShouldScrobble(position, duration, flag) ==
    /\ ~flag
    /\ position >= Min(duration \div 2, 240)
    /\ position > 30

\* NowPlayingState::set_song(song): the song, its duration, position 0 and
\* the scrobble flag
SetSong(song) ==
    /\ np_song' = song
    /\ np_duration' = IF SongDuration(song) = None THEN 0 ELSE SongDuration(song)
    /\ np_position' = 0
    /\ scrobbled' = FALSE
    /\ scrobbles' = 0

\* NowPlayingState::clear: the song, position, duration and the scrobble flag
Clear ==
    /\ np_song' = None
    /\ np_position' = 0
    /\ np_duration' = 0
    /\ scrobbled' = FALSE
    /\ UNCHANGED scrobbles

(***************************************************************************)
(* The application loop (main) and App::handle_action.                     *)
(***************************************************************************)
NoTE == [mode |-> "", index |-> None, len |-> 0, play |-> None]
NoUi == [handled |-> 0, published |-> <<>>, scrobble |-> None]
NoEdit == [op |-> "None", index |-> None, direction |-> 0, songs |-> <<>>,
           cursor |-> None]

\* the edit of the queue that is being made, and the queue before it
Edit(op, index, direction) ==
    [op |-> op, index |-> index, direction |-> direction, songs |-> songs,
     cursor |-> current_index]

\* the last edit of the queue becomes e, where it is recorded
EditIs(e) == qe' = IF recording = "queue" THEN e ELSE qe

\* the play queue is no longer than this
QueueCap == IF recording = "queue" THEN MaxEditLen ELSE MaxQueueLen

\* App::new: everything but the library, the client and the loop's position
\* MprisState::default(), nothing sent to the bridge yet
NoBridge == [track_id |-> None, position |-> 0, volume |-> 0, shuffle |-> FALSE,
             repeat |-> "Off", sent |-> <<>>,
             event |-> [type |-> "None", arg |-> 0],
             intent |-> [type |-> "None", arg |-> 0]]

\* MprisHandle::new: both channels are empty and the thread is spawned
MprisNew == [pc |-> "init", commands |-> <<>>, events |-> <<>>, dropped |-> FALSE]

\* the fields of MprisState other than player_state become b, where they are
\* followed
BridgeIs(b) == bridge' = IF recording = "bridge" THEN b ELSE bridge

AppNew ==
    /\ focus = 0
    /\ selected = None
    /\ songs = <<>>
    /\ current_index = None
    /\ np_state = "Stopped"
    /\ np_song = None
    /\ np_position = 0
    /\ np_duration = 0
    /\ np_volume = InitialNpVolume
    /\ np_shuffle = FALSE
    /\ scrobbled = FALSE
    /\ repeat = "Off"
    /\ events = <<>>
    /\ mpris_state = "Stopped"
    /\ bridge = NoBridge
    /\ mpris = MprisNew
    /\ te = NoTE
    /\ te_run = 0
    /\ ui = NoUi
    /\ scrobbles = 0
    /\ qe = NoEdit

\* a server with a song of 20 seconds and a song that declares no duration
Library == (1 :> 20) @@ (2 :> None)

AppInit ==
    /\ library = Library
    /\ app_pc = "init"
    /\ client = FALSE
    /\ AppNew

\* a Player method called with `?` by the application: the command is sent,
\* or the send fails because the actor has gone and the error ends main
AppSends(type, arg) ==
    IF pc = "exited"
    THEN /\ app_pc' = "failed"
         /\ UNCHANGED cmd_q
    ELSE /\ app_pc' = app_pc
         /\ cmd_q' = SendCmd(cmd_q, type, arg)

\* Player::set_volume called with `?` by the application: the shared volume
\* is stored once the command is sent
AppSetsVolume(n) ==
    /\ AppSends("SetVolume", n)
    /\ volume' = IF pc = "exited" THEN volume ELSE VolumeStored(n)

\* the song App::play_song(song) calls Player::play with, None standing for
\* no call: a song is played only through a connected client
Played(song) == IF song # None /\ client THEN song ELSE None

\* App::play_song(song)
PlaySong(song) ==
    IF Played(song) # None
    THEN /\ SetSong(Played(song))
         /\ AppSends("Play", Played(song))
    ELSE UNCHANGED <<app_pc, cmd_q, np_vars>>

\* the application runs at most this many commands ahead of the actor
AppAhead == MaxCmdQ - 1

\* the application is between two ticks and may send one more command
Idle == app_pc = "idle" /\ Len(cmd_q) < AppAhead

\* the run of TrackEnded events goes on only while queue, cursor and mode
\* are left alone
RunAfter ==
    IF <<songs', current_index', repeat'>> = <<songs, current_index, repeat>>
    THEN te_run
    ELSE IF current_index' = None THEN 0 ELSE None

\* what a step other than the handling of TrackEnded leaves of the history
NoHistory ==
    /\ te' = NoTE
    /\ te_run' = RunAfter
    /\ ui' = NoUi

actor_rest == <<pc, event_q, shared_vars, sink_vars, local_vars, now, hist_vars>>
actor_quiet == <<pc, event_q, is_playing, duration_ms, position_ms, sink_vars,
                 local_vars, now, hist_vars>>

\* App::init: the client is kept if the server answers the ping, and the
\* configured volume is set, an error of the send being ignored
AppStart ==
    /\ app_pc = "init"
    /\ app_pc' = "idle"
    /\ \E connected \in BOOLEAN : client' = connected
    /\ \E v \in Volumes :
         IF pc = "exited"
         THEN UNCHANGED <<cmd_q, volume>>
         ELSE /\ cmd_q' = SendCmd(cmd_q, "SetVolume", v)
              /\ volume' = VolumeStored(v)
    /\ UNCHANGED actor_quiet
    /\ UNCHANGED <<library, queue_vars, np_state, repeat, events, mpris_vars, te,
                   te_run, ui, np_vars, np_volume, edit_vars>>

\* App::toggle_play_pause
TogglePlayPause ==
    /\ Idle
    /\ CASE np_state = "Playing" ->
              /\ AppSends("Pause", 0)
              /\ np_state' = "Paused"
              /\ UNCHANGED <<current_index, np_vars>>
         [] np_state = "Paused" ->
              /\ AppSends("Resume", 0)
              /\ np_state' = "Playing"
              /\ UNCHANGED <<current_index, np_vars>>
         [] np_state = "Stopped" ->
              /\ current_index' = IF CurrentSong(songs, current_index) # None
                                  THEN current_index
                                  ELSE Advance(songs, current_index)
              /\ PlaySong(CurrentSong(songs, current_index'))
              /\ UNCHANGED np_state
    /\ UNCHANGED <<actor_rest, library, client, songs, repeat, events, np_volume,
                   edit_vars>>
    /\ NoHistory

\* Action::PlayPause
PlayPause ==
    /\ TogglePlayPause
    /\ UNCHANGED mpris_vars

\* Action::Stop: Player::stop, then NowPlayingState::clear
StopIntent ==
    /\ Idle
    /\ AppSends("Stop", 0)
    /\ IF pc = "exited"
       THEN UNCHANGED <<np_state, np_vars>>
       ELSE /\ np_state' = "Stopped"
            /\ Clear
    /\ UNCHANGED <<actor_rest, library, client, queue_vars, repeat, events,
                   mpris_vars, np_volume, edit_vars>>
    /\ NoHistory

\* Action::NextTrack: App::play_next
NextTrack ==
    /\ Idle
    /\ current_index' = Advance(songs, current_index)
    /\ PlaySong(IF NextSong(songs, current_index) # None
                THEN CurrentSong(songs, current_index') ELSE None)
    /\ UNCHANGED <<actor_rest, library, client, songs, np_state, repeat, events,
                   mpris_vars, np_volume, select_vars, np_shuffle>>
    /\ EditIs(NoEdit)
    /\ NoHistory

\* Action::PreviousTrack: App::play_previous
PreviousTrack ==
    /\ Idle
    /\ current_index' = GoBack(songs, current_index)
    /\ PlaySong(IF PreviousSong(songs, current_index) # None
                THEN CurrentSong(songs, current_index') ELSE None)
    /\ UNCHANGED <<actor_rest, library, client, songs, np_state, repeat, events,
                   mpris_vars, np_volume, select_vars, np_shuffle>>
    /\ EditIs(NoEdit)
    /\ NoHistory

\* Action::PlayFromQueue(index): App::play_from_queue
PlayFromQueue ==
    /\ Idle
    /\ \E index \in 0..QueueCap :
         /\ current_index' = PlayIndex(songs, current_index, index)
         /\ PlaySong(IF index < Len(songs) THEN CurrentSong(songs, current_index')
                     ELSE None)
    /\ UNCHANGED <<actor_rest, library, client, songs, np_state, repeat, events,
                   mpris_vars, np_volume, select_vars, np_shuffle>>
    /\ EditIs(NoEdit)
    /\ NoHistory

\* Action::SeekTo(pos_secs): the target is capped at the duration shown
SeekIntent ==
    /\ Idle
    /\ \E pos_secs \in SeekPositions :
         /\ np_position' = Min(pos_secs, np_duration)
         /\ AppSends("Seek", Min(pos_secs, np_duration))
    /\ UNCHANGED <<actor_rest, library, client, queue_vars, np_state, repeat, events,
                   mpris_vars, np_song, np_duration, scrobbled, scrobbles, np_volume,
                   edit_vars>>
    /\ NoHistory

\* Action::CycleRepeat
CycleRepeat ==
    /\ app_pc = "idle"
    /\ repeat' = RepeatNext(repeat)
    /\ UNCHANGED <<actor_vars, library, app_pc, client, queue_vars, np_state, events,
                   mpris_vars, np_vars, np_volume, edit_vars>>
    /\ NoHistory

\* Action::SetRepeat(mode)
SetRepeat ==
    /\ app_pc = "idle"
    /\ \E mode \in {"Off", "All", "One"} : repeat' = mode
    /\ UNCHANGED <<actor_vars, library, app_pc, client, queue_vars, np_state, events,
                   mpris_vars, np_vars, np_volume, edit_vars>>
    /\ NoHistory

\* Action::AddToQueue(song): QueueState::add
AddToQueue ==
    /\ app_pc = "idle"
    /\ Len(songs) < QueueCap
    /\ \E song \in Songs : songs' = Append(songs, song)
    /\ EditIs(Edit("add", Len(songs), 0))
    /\ UNCHANGED <<actor_vars, library, app_pc, client, current_index, np_state, repeat,
                   events, mpris_vars, np_vars, np_volume, select_vars, np_shuffle>>
    /\ NoHistory

\* Action::AddAlbumToQueue(songs): QueueState::add_all
AddAlbumToQueue ==
    /\ app_pc = "idle"
    /\ \E first \in Songs, second \in Songs :
         /\ Len(songs) + 2 <= QueueCap
         /\ songs' = songs \o <<first, second>>
    /\ EditIs(Edit("add_all", Len(songs), 0))
    /\ UNCHANGED <<actor_vars, library, app_pc, client, current_index, np_state, repeat,
                   events, mpris_vars, np_vars, np_volume, select_vars, np_shuffle>>
    /\ NoHistory

\* QueueState::remove(index) as a step of the application
Remove(op, index) ==
    /\ songs' = IF index < Len(songs) THEN RemoveAt(songs, index) ELSE songs
    /\ current_index' = RemoveCursor(songs, current_index, index)
    /\ selected' = RemoveSelection(Len(songs), selected, index)
    /\ EditIs(Edit(op, index, 0))

\* Action::RemoveFromQueue(index): QueueState::remove
RemoveFromQueue ==
    /\ app_pc = "idle"
    /\ \E index \in 0..(Len(songs) - 1) : Remove("remove", index)
    /\ UNCHANGED <<actor_vars, library, app_pc, client, np_state, repeat, events,
                   mpris_vars, np_vars, np_volume, focus, np_shuffle>>
    /\ NoHistory

\* Action::RemoveSelectedFromQueue: QueueState::remove_selected, in the
\* focused queue
RemoveSelectedFromQueue ==
    /\ app_pc = "idle"
    /\ focus = 1
    /\ selected # None
    /\ Remove("remove_selected", selected)
    /\ UNCHANGED <<actor_vars, library, app_pc, client, np_state, repeat, events,
                   mpris_vars, np_vars, np_volume, focus, np_shuffle>>
    /\ NoHistory

\* Action::ClearQueue: QueueState::clear
ClearQueue ==
    /\ app_pc = "idle"
    /\ songs' = <<>>
    /\ current_index' = None
    /\ selected' = None
    /\ EditIs(Edit("clear", None, 0))
    /\ UNCHANGED <<actor_vars, library, app_pc, client, np_state, repeat, events,
                   mpris_vars, np_vars, np_volume, focus, np_shuffle>>
    /\ NoHistory

\* the directions of the key bindings J and K
Directions == {0 - 1, 1}

\* Action::MoveQueueItem(_, direction): App::move_queue_item on the selection
\* of the focused queue
MoveQueueItem ==
    /\ app_pc = "idle"
    /\ focus = 1
    /\ selected # None
    /\ \E direction \in Directions :
         /\ songs' = MoveSongs(songs, selected, direction)
         /\ current_index' = MoveCursor(Len(songs), current_index, selected, direction)
         /\ selected' = MoveSelection(Len(songs), selected, selected, direction)
         /\ EditIs(Edit("move", selected, direction))
    /\ UNCHANGED <<actor_vars, library, app_pc, client, np_state, repeat, events,
                   mpris_vars, np_vars, np_volume, focus, np_shuffle>>
    /\ NoHistory

\* Action::ToggleShuffle: the queue is shuffled when shuffle is turned on
ToggleShuffle ==
    /\ app_pc = "idle"
    /\ np_shuffle' = ~np_shuffle
    /\ IF np_shuffle'
       THEN /\ \E r \in Shuffle(songs, current_index) :
                 /\ songs' = r[1]
                 /\ current_index' = r[2]
            /\ EditIs(Edit("shuffle", None, 0))
       ELSE UNCHANGED <<queue_vars, qe>>
    /\ UNCHANGED <<actor_vars, library, app_pc, client, np_state, repeat, events,
                   mpris_vars, np_vars, np_volume, select_vars>>
    /\ NoHistory

\* Action::MouseClick on the queue panel: the queue is focused and the row
\* under the pointer selected, whether or not it holds a song
QueueClick ==
    /\ app_pc = "idle"
    /\ focus' = 1
    /\ \E row \in 0..QueueCap : selected' = row
    /\ UNCHANGED <<actor_vars, library, app_pc, client, queue_vars, np_state, repeat,
                   events, mpris_vars, np_vars, np_volume, np_shuffle, qe>>
    /\ NoHistory

\* Action::NavigateDown / NavigateUp in the focused queue:
\* QueueState::select_next / select_previous
Navigate ==
    /\ app_pc = "idle"
    /\ focus = 1
    /\ \/ selected' = SelectNext(Len(songs), selected)
       \/ selected' = SelectPrevious(Len(songs), selected)
    /\ UNCHANGED <<actor_vars, library, app_pc, client, queue_vars, np_state, repeat,
                   events, mpris_vars, np_vars, np_volume, focus, np_shuffle, qe>>
    /\ NoHistory

\* a volume intent: NowPlayingState::volume is set, then Player::set_volume
\* is called with sent / 100
VolumeIntent(shown, sent) ==
    /\ Idle
    /\ np_volume' = shown
    /\ AppSetsVolume(sent)
    /\ UNCHANGED <<pc, event_q, is_playing, duration_ms, position_ms, sink_vars,
                   local_vars, now, hist_vars>>
    /\ UNCHANGED <<library, client, queue_vars, np_state, repeat, events, mpris_vars,
                   np_vars, edit_vars>>
    /\ NoHistory

\* Action::VolumeUp
VolumeUp == VolumeIntent(Min(np_volume + 5, 100), Min(np_volume + 5, 100))

\* Action::VolumeDown
VolumeDown == VolumeIntent(Max(np_volume - 5, 0), Max(np_volume - 5, 0))

\* Action::MouseScroll over the volume bar: 5% per scroll, clamp(0, 100)
VolumeScroll ==
    \E change \in {5, 0 - 5} :
        VolumeIntent(Max(0, Min(np_volume + change, 100)),
                     Max(0, Min(np_volume + change, 100)))

\* width of the volume bar, in cells
BarWidth == 10

\* Action::MouseClick on the volume bar, click_offset cells from its left end
VolumeBarClick ==
    \E click_offset \in 0..(BarWidth - 1) :
        VolumeIntent(Min(((click_offset + 1) * 100) \div BarWidth, 100),
                     Min(((click_offset + 1) * 100) \div BarWidth, 100))

\* the percentages (vol * 100.0) as u8 a media controller asks for
VolumeInputs == {0, 53, 100, 150, 255}

\* Action::SetVolume(vol), sent for MprisEvent::SetVolume
SetVolumeIntent == \E vol \in VolumeInputs : VolumeIntent(Min(vol, 100), vol)

\* Action::Tick: every pending event is collected before any is handled
TickCollect ==
    /\ app_pc = "idle"
    /\ app_pc' = "events"
    /\ events' = event_q
    /\ event_q' = <<>>
    /\ UNCHANGED <<pc, cmd_q, shared_vars, sink_vars, local_vars, now, hist_vars,
                   library, client, queue_vars, np_state, repeat, mpris_vars, np_vars,
                   np_volume, edit_vars>>
    /\ NoHistory

\* the application is handling the collected events and may send a command
Handling(type) ==
    /\ app_pc = "events"
    /\ events # <<>>
    /\ Head(events).type = type
    /\ Len(cmd_q) < AppAhead

\* App::handle_player_event(StateChanged(state))
OnStateChanged ==
    /\ Handling("StateChanged")
    /\ np_state' = Head(events).info
    /\ events' = Tail(events)
    /\ te' = NoTE
    /\ ui' = [ui EXCEPT !.handled = @ + 1]
    /\ UNCHANGED <<actor_vars, library, app_pc, client, queue_vars, repeat, mpris_vars,
                   te_run, np_vars, np_volume, edit_vars>>

\* App::handle_player_event(Progress { position, duration }):
\* position.as_secs() and duration.as_secs()
OnProgress ==
    /\ Handling("Progress")
    /\ np_position' = Head(events).info.position \div 1000
    /\ np_duration' = Head(events).info.duration
    /\ events' = Tail(events)
    /\ te' = NoTE
    /\ ui' = [ui EXCEPT !.handled = @ + 1]
    /\ UNCHANGED <<actor_vars, library, app_pc, client, queue_vars, np_state, repeat,
                   mpris_vars, te_run, np_song, scrobbled, scrobbles, np_volume,
                   edit_vars>>

\* App::handle_player_event(Error(msg)): the message is shown, nothing of the
\* playback orchestration changes
OnError ==
    /\ Handling("Error")
    /\ events' = Tail(events)
    /\ te' = NoTE
    /\ ui' = [ui EXCEPT !.handled = @ + 1]
    /\ UNCHANGED <<actor_vars, library, app_pc, client, queue_vars, np_state, repeat,
                   mpris_vars, te_run, np_vars, np_volume, edit_vars>>

\* App::handle_player_event(TrackEnded): App::handle_track_ended
OnTrackEnded ==
    /\ Handling("TrackEnded")
    /\ LET d == HandleTrackEnded(repeat, songs, current_index)
       IN  /\ current_index' = d.index
           /\ np_state' = IF d.stop THEN "Stopped" ELSE np_state
           /\ PlaySong(d.play)
           /\ te' = [mode |-> repeat, index |-> current_index, len |-> Len(songs),
                     play |-> Played(d.play)]
    /\ events' = Tail(events)
    /\ te_run' = IF te_run # None /\ te_run <= Len(songs) THEN te_run + 1 ELSE None
    /\ ui' = [ui EXCEPT !.handled = @ + 1]
    /\ UNCHANGED <<actor_rest, library, client, songs, repeat, mpris_vars, np_volume,
                   edit_vars>>

\* a sync_mpris_state that publishes the playback status on every call
StatusEveryTick(state, last) == <<state>>

\* sync_mpris_state, playback status: the notifications sent to the bridge
StatusNotifications(state, last) == IF state # last THEN <<state>> ELSE <<>>

MprisCommand(type, arg) == [type |-> type, arg |-> arg]

\* mpris::repeat_to_loop_status
RepeatToLoopStatus(mode) ==
    CASE mode = "Off" -> "None"
      [] mode = "One" -> "Track"
      [] mode = "All" -> "Playlist"

\* sync_mpris_state: one command if the value differs from the one MprisState
\* holds
IfChanged(type, value, last) ==
    IF value # last THEN <<MprisCommand(type, value)>> ELSE <<>>

\* sync_mpris_state: metadata is sent when the track id has changed and a
\* song is loaded
MetadataCommands(song, last) ==
    IF song # last /\ song # None THEN <<MprisCommand("SetMetadata", song)>> ELSE <<>>

\* sync_mpris_state: can_go_next and can_go_previous, sent on every call
CanGoCommands(queue) ==
    <<MprisCommand("SetCanGoNext", queue # <<>>),
      MprisCommand("SetCanGoPrevious", queue # <<>>)>>

\* sync_mpris_state: the commands of one call, in the order they are sent
SyncCommands ==
    MetadataCommands(np_song, bridge.track_id)
        \o IfChanged("SetPlaybackStatus", np_state, mpris_state)
        \o IfChanged("SetPosition", np_position, bridge.position)
        \o IfChanged("SetVolume", np_volume, bridge.volume)
        \o IfChanged("SetShuffle", np_shuffle, bridge.shuffle)
        \o (IF repeat # bridge.repeat
            THEN <<MprisCommand("SetLoopStatus", RepeatToLoopStatus(repeat))>>
            ELSE <<>>)
        \o CanGoCommands(songs)

\* the end of Action::Tick, where the Scrobble intent is sent if it is due,
\* and sync_mpris_state after it
TickSync ==
    /\ app_pc = "events"
    /\ events = <<>>
    /\ app_pc' = "idle"
    /\ mpris_state' = np_state
    /\ BridgeIs([bridge EXCEPT !.track_id = np_song, !.position = np_position,
                               !.volume = np_volume, !.shuffle = np_shuffle,
                               !.repeat = repeat, !.sent = SyncCommands])
    /\ LET due == ShouldScrobble(np_position, np_duration, scrobbled)
       IN  /\ scrobbled' = (scrobbled \/ due)
           /\ scrobbles' = IF due THEN Min(scrobbles + 1, 2) ELSE scrobbles
           /\ ui' = [ui EXCEPT !.published = StatusNotifications(np_state, mpris_state),
                               !.scrobble = IF due THEN np_position ELSE None]
    /\ te' = NoTE
    /\ UNCHANGED <<actor_vars, library, client, queue_vars, np_state, repeat, events,
                   mpris, te_run, np_song, np_position, np_duration, np_volume,
                   edit_vars>>

MprisEvent(type, arg) == [type |-> type, arg |-> arg]
Intent(type, arg) == [type |-> type, arg |-> arg]

\* the events the bridge sends: Seek (microseconds, signed), SetPosition
\* (microseconds), SetVolume (hundredths of the f64), SetLoopStatus,
\* SetShuffle, and the events without argument
MprisEventInputs ==
    {MprisEvent(t, 0) : t \in {"PlayPause", "Play", "Pause", "Stop", "Next",
                                "Previous", "Raise", "Quit"}}
        \cup {MprisEvent("Seek", o) : o \in {0 - 5000000, 0 - 1, 0, 1, 5000000}}
        \cup {MprisEvent("SetPosition", p) : p \in {0, 999999, 1000000, 3000000}}
        \cup {MprisEvent("SetVolume", v) : v \in {0 - 50, 0, 29, 50, 100, 300}}
        \cup {MprisEvent("SetLoopStatus", l) : l \in {"None", "Track", "Playlist"}}
        \cup {MprisEvent("SetShuffle", b) : b \in BOOLEAN}

\* i64 division, which truncates towards zero
Quotient(a, b) == IF a >= 0 THEN a \div b ELSE 0 - ((0 - a) \div b)

\* the hundredths n for which the f64 product (n / 100.0) * 100.0 is below n
ProductBelow == {29, 57, 58, 113, 114, 115, 116, 201, 203, 205, 207, 226, 228, 230,
                 232, 251, 253, 255}

\* (vol * 100.0) as u8 for vol = n / 100.0: the product is truncated and
\* saturates at 0 and 255
VolumePercent(n) ==
    Max(0, Min(255, IF n \in ProductBelow THEN n - 1 ELSE n))

\* mpris::loop_status_to_repeat
LoopStatusToRepeat(status) ==
    CASE status = "None" -> "Off"
      [] status = "Track" -> "One"
      [] status = "Playlist" -> "All"

\* main, `let action = match mpris_event { .. }`: the intent an event of the
\* bridge becomes while now_playing.shuffle is shuffle
Translate(e, shuffle) ==
    CASE e.type \in {"PlayPause", "Play", "Pause"} -> Intent("PlayPause", 0)
      [] e.type = "Stop" -> Intent("Stop", 0)
      [] e.type = "Next" -> Intent("NextTrack", 0)
      [] e.type = "Previous" -> Intent("PreviousTrack", 0)
      [] e.type = "Seek" ->
            IF Quotient(e.arg, 1000000) >= 0 THEN Intent("SeekForward", 0)
            ELSE Intent("SeekBackward", 0)
      [] e.type = "SetPosition" -> Intent("SeekTo", e.arg \div 1000000)
      [] e.type = "SetVolume" -> Intent("SetVolume", VolumePercent(e.arg))
      [] e.type = "SetLoopStatus" -> Intent("SetRepeat", LoopStatusToRepeat(e.arg))
      [] e.type = "SetShuffle" ->
            IF e.arg # shuffle THEN Intent("ToggleShuffle", 0) ELSE Intent("None", 0)
      [] e.type = "Raise" -> Intent("None", 0)
      [] e.type = "Quit" -> Intent("Quit", 0)

\* main, `while let Some(mpris_event) = handle.try_recv()`: one event of the
\* bridge is translated and the intent, unless it is Action::None, is sent on
\* the action channel
MprisEvents ==
    /\ app_pc = "idle"
    /\ \E e \in MprisEventInputs :
         BridgeIs([bridge EXCEPT !.event = e, !.intent = Translate(e, np_shuffle)])
    /\ UNCHANGED <<actor_vars, library, app_pc, client, queue_vars, np_state, repeat,
                   events, mpris_state, mpris, te, te_run, ui, np_vars, np_volume,
                   edit_vars>>

\* the playback events of a media controller: Play, Pause and PlayPause
PlaybackEvents == {e \in MprisEventInputs : e.type \in {"Play", "Pause", "PlayPause"}}

\* main, one loop iteration: a playback event of the bridge is translated, its
\* intent is sent on the action channel, received and handled
MprisPlayback ==
    /\ \E e \in PlaybackEvents :
         /\ Translate(e, np_shuffle) = Intent("PlayPause", 0)
         /\ BridgeIs([bridge EXCEPT !.event = e, !.intent = Translate(e, np_shuffle)])
    /\ TogglePlayPause
    /\ UNCHANGED <<mpris_state, mpris>>

(***************************************************************************)
(* The bridge thread (src/src/mpris.rs) and its handle.                    *)
(***************************************************************************)
beside_mpris == <<actor_vars, library, app_pc, client, queue_vars, np_state, repeat,
                  events, mpris_state, bridge, te, te_run, ui, np_vars, np_volume,
                  edit_vars>>

Shutdown == MprisCommand("Shutdown", 0)

\* the commands MprisHandle::set_* send
BridgeCommandInputs ==
    {MprisCommand("SetPlaybackStatus", "Playing"), MprisCommand("SetPosition", 1),
     MprisCommand("SetCanGoNext", TRUE)}

\* the events the handlers of the bridge send
BridgeEventInputs == {MprisEvent("PlayPause", 0), MprisEvent("Seek", 1)}

\* run_mpris_thread up to its loop: the thread returns if the runtime or the
\* player cannot be built, dropping the command receiver
BridgeStart ==
    /\ mpris.pc = "init"
    /\ \E built \in BOOLEAN :
         mpris' = IF built THEN [mpris EXCEPT !.pc = "loop"]
                  ELSE [mpris EXCEPT !.pc = "done", !.commands = <<>>]
    /\ UNCHANGED beside_mpris

\* MprisHandle::send: the command is queued, or the send fails because the
\* thread has returned and the caller ignores the error
BridgeSend ==
    /\ ~mpris.dropped
    /\ Len(mpris.commands) < MaxBridgeQ
    /\ \E c \in BridgeCommandInputs \cup {Shutdown} :
         mpris' = IF mpris.pc = "done" THEN mpris
                  ELSE [mpris EXCEPT !.commands = Append(@, c)]
    /\ UNCHANGED beside_mpris

\* a loop that ends on the first command it receives
BridgeRecvEndsOnAny ==
    /\ mpris.pc = "loop"
    /\ mpris.commands # <<>> \/ mpris.dropped
    /\ mpris' = [mpris EXCEPT !.pc = "done", !.commands = <<>>]
    /\ UNCHANGED beside_mpris

\* run_mpris_thread, `cmd = command_rx.recv()`: a command is applied to the
\* player, a failure being logged; Shutdown, or None once the sender is
\* dropped and nothing is queued, ends the loop and the thread returns,
\* dropping the command receiver
BridgeRecv ==
    /\ mpris.pc = "loop"
    /\ mpris.commands # <<>> \/ mpris.dropped
    /\ mpris' = IF mpris.commands = <<>> \/ Head(mpris.commands).type = "Shutdown"
                THEN [mpris EXCEPT !.pc = "done", !.commands = <<>>]
                ELSE [mpris EXCEPT !.commands = Tail(@)]
    /\ UNCHANGED beside_mpris

\* a handler of the bridge runs: `let _ = tx.send(event)`, the event being
\* lost if the receiver was dropped
BridgeEvent ==
    /\ mpris.pc = "loop"
    /\ Len(mpris.events) < MaxBridgeQ
    /\ \E e \in BridgeEventInputs :
         mpris' = IF mpris.dropped THEN mpris
                  ELSE [mpris EXCEPT !.events = Append(@, e)]
    /\ UNCHANGED beside_mpris

\* MprisHandle::try_recv returning Some(event)
BridgeTryRecv ==
    /\ ~mpris.dropped
    /\ mpris.events # <<>>
    /\ mpris' = [mpris EXCEPT !.events = Tail(@)]
    /\ UNCHANGED beside_mpris

\* impl Drop for MprisHandle: Shutdown is sent, the error of the send being
\* ignored, and the command sender and the event receiver are dropped
DropMprisHandle ==
    /\ ~mpris.dropped
    /\ mpris' = [mpris EXCEPT !.dropped = TRUE,
                              !.events = <<>>,
                              !.commands = IF mpris.pc = "done" THEN @
                                           ELSE Append(@, Shutdown)]
    /\ UNCHANGED beside_mpris

MprisThread ==
    \/ BridgeStart
    \/ BridgeRecv
    \/ BridgeEvent

App ==
    \/ AppStart
    \/ PlayPause
    \/ StopIntent
    \/ NextTrack
    \/ PreviousTrack
    \/ PlayFromQueue
    \/ SeekIntent
    \/ CycleRepeat
    \/ SetRepeat
    \/ AddToQueue
    \/ RemoveFromQueue
    \/ ClearQueue
    \/ TickCollect
    \/ OnStateChanged
    \/ OnProgress
    \/ OnError
    \/ OnTrackEnded
    \/ TickSync

Init == ActorInit /\ AppInit /\ recording = "actor"

Next ==
    \/ Actor
    \/ Send
    \/ TryRecvEvent

\* the playback actor with any caller of the Player handle
Spec == Init /\ [][Next]_vars

SteadyNext ==
    \/ ActorStart
    \/ RecvEmpty
    \/ HandlePlay
    \/ PlayFetched
    \/ HandlePause
    \/ HandleResume
    \/ HandleStop
    \/ HandleSetVolume
    \/ HandleSeek
    \/ EndOfTick
    \/ Send
    \/ TryRecvEvent

\* the playback actor with any caller, on audio that does not run out: the
\* sink is emptied by commands only
SpecSteady == Init /\ [][SteadyNext]_vars

DropNext ==
    \/ Next
    \/ RecvDisconnected
    \/ DropHandle

\* the playback actor with a caller that drops the Player handle at any time;
\* the actor thread keeps being scheduled
SpecDrop == Init /\ [][DropNext]_vars /\ WF_vars(Actor \/ RecvDisconnected)

SysInit == ActorInit /\ AppInit /\ recording = "none"

SysNext ==
    \/ Actor
    \/ App

TimeNext ==
    \/ Next
    \/ TimePasses

\* the playback actor with any caller of the Player handle, on a running clock
SpecTime == Init /\ [][TimeNext]_vars

\* the playback actor with the application loop as its caller
SpecSys == SysInit /\ [][SysNext]_vars

\* a server with a song of 20 seconds and a song of 500 seconds
ScrobbleLibrary == (1 :> 20) @@ (2 :> 500)

ScrobbleInit ==
    /\ ActorInit
    /\ library = ScrobbleLibrary
    /\ app_pc = "init"
    /\ client = FALSE
    /\ AppNew
    /\ recording = "scrobble"

ScrobbleNext ==
    \/ ActorStart
    \/ RecvEmpty
    \/ HandlePlay
    \/ PlayFetched
    \/ HandleStop
    \/ HandleSetVolume
    \/ EndOfTick
    \/ SinkDrain
    \/ TimePasses
    \/ AppStart
    \/ AddToQueue
    \/ PlayFromQueue
    \/ StopIntent
    \/ TickCollect
    \/ OnStateChanged
    \/ OnProgress
    \/ OnError
    \/ OnTrackEnded
    \/ TickSync

\* the playback actor and the application loop while tracks are played for
\* minutes and stopped
SpecScrobble == ScrobbleInit /\ [][ScrobbleNext]_vars

\* a server with three songs
QueueLibrary == (1 :> 20) @@ (2 :> None) @@ (3 :> 500)

QueueInit ==
    /\ ActorInit
    /\ library = QueueLibrary
    /\ app_pc = "init"
    /\ client = FALSE
    /\ AppNew
    /\ recording = "queue"

QueueNext ==
    \/ ActorStart
    \/ RecvEmpty
    \/ HandleSetVolume
    \/ EndOfTick
    \/ AppStart
    \/ NextTrack
    \/ PreviousTrack
    \/ PlayFromQueue
    \/ AddToQueue
    \/ AddAlbumToQueue
    \/ RemoveFromQueue
    \/ RemoveSelectedFromQueue
    \/ ClearQueue
    \/ MoveQueueItem
    \/ ToggleShuffle
    \/ QueueClick
    \/ Navigate

\* the application loop while the play queue is edited, reordered and
\* navigated
SpecQueue == QueueInit /\ [][QueueNext]_vars

VolumeNext ==
    \/ ActorStart
    \/ RecvEmpty
    \/ HandleSetVolume
    \/ EndOfTick
    \/ AppStart
    \/ VolumeUp
    \/ VolumeDown
    \/ VolumeScroll
    \/ VolumeBarClick
    \/ SetVolumeIntent

\* the application loop and the actor while the volume is changed
SpecVolume == SysInit /\ [][VolumeNext]_vars

BridgeInit == ActorInit /\ AppInit /\ recording = "bridge"

BridgeNext ==
    \/ ActorStart
    \/ RecvEmpty
    \/ HandlePlay
    \/ PlayFetched
    \/ HandleSetVolume
    \/ EndOfTick
    \/ SinkDrain
    \/ AppStart
    \/ AddToQueue
    \/ PlayFromQueue
    \/ ToggleShuffle
    \/ TickCollect
    \/ OnStateChanged
    \/ OnProgress
    \/ OnError
    \/ OnTrackEnded
    \/ TickSync

\* the application loop and the actor while the state that the bridge
\* publishes changes
SpecBridge == BridgeInit /\ [][BridgeNext]_vars

EventsNext ==
    \/ AppStart
    \/ AddToQueue
    \/ ToggleShuffle
    \/ CycleRepeat
    \/ MprisEvents

\* the application loop while the bridge sends it events
SpecEvents == BridgeInit /\ [][EventsNext]_vars

DecodeNext ==
    \/ SourceNew
    \/ SourceNext
    \/ DecodeStep

\* a source that is built on any stream and read to its end
SpecDecode == Init /\ [][DecodeNext]_vars /\ WF_vars(DecodeNext)

CurveNext ==
    \/ CurveCall

\* the volume curve on any argument
SpecCurve == Init /\ [][CurveNext]_vars

AuthNext ==
    \/ FromPassword
    \/ FromApiKey
    \/ FromLegacyPassword
    \/ Regenerate
    \/ QueryParamsCall

\* credentials built from any input and asked for their query parameters
SpecAuth == Init /\ [][AuthNext]_vars

ControlNext ==
    \/ ActorStart
    \/ RecvEmpty
    \/ HandlePlay
    \/ PlayFetched
    \/ HandlePause
    \/ HandleResume
    \/ HandleSetVolume
    \/ EndOfTick
    \/ SinkDrain
    \/ AppStart
    \/ AddToQueue
    \/ MprisPlayback
    \/ TickCollect
    \/ OnStateChanged
    \/ OnProgress
    \/ OnError
    \/ OnTrackEnded
    \/ TickSync

\* the playback actor and the application loop under a media controller
\* that sends Play, Pause and PlayPause
SpecControl == BridgeInit /\ [][ControlNext]_vars

ShutdownNext ==
    \/ MprisThread
    \/ BridgeSend
    \/ BridgeTryRecv
    \/ DropMprisHandle

\* the bridge thread with any holder of its handle; the thread keeps being
\* scheduled
SpecShutdown == BridgeInit /\ [][ShutdownNext]_vars /\ WF_vars(BridgeStart \/ BridgeRecv)

(***************************************************************************)
(* Properties of the playback actor.                                       *)
(***************************************************************************)
\* the events of the given type among es
OfType(es, type) == SelectSeq(es, LAMBDA e : e.type = type)

\* the tick in progress, or the last one finished, handles a Seek that found
\* audio loaded
SeekTick == tick.cmd = "Seek" /\ tick.loaded

\* the tick has run to its sleep
TickDone == pc = "recv" /\ tick.at_check # <<>>

\* C1: from the moment a Seek with audio loaded is dequeued until the next
\* tick begins, is_playing has the value it had when the Seek was dequeued,
\* and an output left paused-state is not audible: a Seek neither resumes
\* nor pauses playback.
SeekPreservesPlaying ==
    SeekTick =>
        /\ is_playing = tick.pre_playing
        /\ (tick.ok => sink_paused = ~tick.pre_playing)

\* a Seek processed while Paused has finished its tick with the output
\* reloaded and paused
SeekWhilePausedDone ==
    TickDone /\ SeekTick /\ tick.ok /\ ~tick.pre_playing /\ ~sink_empty /\ sink_paused

\* C2: the seek guard is set in exactly the ticks that process a Seek with
\* audio loaded: it is set at their track-end check and nowhere else, no
\* TrackEnded is emitted in such a tick, and it is clear at the top of the
\* loop, so the check of any other tick runs unguarded.
SeekGuardExact ==
    /\ is_seeking => (pc \in {"check", "exited"} /\ SeekTick)
    /\ (pc = "check" /\ SeekTick) => is_seeking
    /\ pc = "recv" => ~is_seeking
    /\ SeekTick => OfType(tick.events, "TrackEnded") = <<>>
    /\ TickDone => tick.at_check[3] = SeekTick

\* a Seek tick met an empty sink while is_playing was true at its track-end
\* check and finished without TrackEnded
GuardSuppressedTrackEnd ==
    TickDone /\ SeekTick /\ tick.at_check = <<TRUE, TRUE, TRUE>>

\* C3 as stated: a successful Seek emits exactly one StateChanged, Paused if
\* the actor was Paused and Playing if it was Playing.
SeekEmitsOneStateChanged ==
    (SeekTick /\ tick.ok) =>
        OfType(tick.events, "StateChanged") =
            <<StateChanged(IF tick.pre_playing THEN "Playing" ELSE "Paused")>>

\* C3 amended: a successful Seek emits exactly one StateChanged(Paused) if
\* the actor was Paused, and no StateChanged event if it was Playing.
SeekEmitsPausedOnly ==
    (SeekTick /\ tick.ok) =>
        OfType(tick.events, "StateChanged") =
            (IF tick.pre_playing THEN <<>> ELSE <<StateChanged("Paused")>>)

\* a successful Seek processed while Playing has finished its tick
SeekWhilePlayingDone == TickDone /\ SeekTick /\ tick.ok /\ tick.pre_playing

\* the tick handles a Play whose fetch or decode failed
FailedPlayTick == tick.cmd = "Play" /\ OfType(tick.events, "Error") # <<>>

\* C4: a Play whose fetch or decode fails emits one Error, leaves is_playing
\* as it was, causes no StateChanged and no TrackEnded, and the actor keeps
\* running.
FailedPlayKeepsState ==
    FailedPlayTick =>
        /\ Len(OfType(tick.events, "Error")) = 1
        /\ is_playing = tick.pre_playing
        /\ OfType(tick.events, "StateChanged") = <<>>
        /\ OfType(tick.events, "TrackEnded") = <<>>
        /\ pc # "exited"

\* the events a step from the current state adds to its tick's history
NewEvents ==
    IF tick' = tick THEN <<>>
    ELSE IF pc = "recv" THEN tick'.events
    ELSE SubSeq(tick'.events, Len(tick.events) + 1, Len(tick'.events))

\* C5: every change of the command channel is a send at its back or the
\* receive of its oldest command by the actor at the top of its loop, which
\* then handles that very command and dequeues no other before its tick has
\* ended (so nothing is dequeued while a Play is being fetched); every change
\* of the event channel is a receive at its front or the actor appending, in
\* order, the events of the transitions it has just made.
CommandsInSendOrder ==
    [][ /\ cmd_q' # cmd_q =>
            \/ \E c \in CommandInputs : cmd_q' = Append(cmd_q, PlayerCommand(c[1], c[2]))
            \/ /\ cmd_q # <<>>
               /\ cmd_q' = Tail(cmd_q)
               /\ pc = "recv"
               /\ pc' # "recv"
               /\ tick'.cmd = Head(cmd_q).type
               /\ tick'.arg = Head(cmd_q).arg
        /\ pc # "recv" => Len(cmd_q') >= Len(cmd_q)
        /\ event_q' # event_q =>
            \/ event_q # <<>> /\ event_q' = Tail(event_q) /\ tick' = tick
            \/ event_q' = event_q \o NewEvents
      ]_vars

\* a Play has been handled to its end while two different commands, sent
\* meanwhile, wait in the channel
CommandsWaitedBehindPlay ==
    /\ pc = "check"
    /\ tick.cmd = "Play"
    /\ Len(cmd_q) = MaxCmdQ
    /\ cmd_q[1] # cmd_q[MaxCmdQ]

\* C7, for a finished tick: TrackEnded was emitted, once, iff at the
\* track-end check the sink was empty, is_playing was true and the guard was
\* clear, and then is_playing is false.
TrackEndedIffDrained ==
    TickDone =>
        /\ OfType(tick.events, "TrackEnded") =
               (IF tick.at_check[1] /\ tick.at_check[2] /\ ~tick.at_check[3]
                THEN <<TrackEnded>> ELSE <<>>)
        /\ OfType(tick.events, "TrackEnded") # <<>> => ~is_playing

\* C7, for a step: is_playing becomes true only by handling a Play or a
\* Resume, and a step that emits TrackEnded starts with is_playing true and
\* ends with it false.
TrackEndedStep ==
    /\ (~is_playing /\ is_playing') => tick'.cmd \in {"Play", "Resume"}
    /\ OfType(NewEvents, "TrackEnded") # <<>> => (pc = "check" /\ is_playing /\ ~is_playing')

\* C7: TrackEnded is emitted in a tick iff, after the tick's command
\* handling, the sink is empty, is_playing is true and the seek guard is
\* clear; emitting it clears is_playing, so no further TrackEnded follows
\* until a command sets is_playing again.
TrackEndedExactlyWhenDrained == []TrackEndedIffDrained /\ [][TrackEndedStep]_vars

\* a tick that handled no command found the playback drained and emitted
\* TrackEnded
IdleTickEmittedTrackEnded ==
    TickDone /\ tick.cmd = "None" /\ OfType(tick.events, "TrackEnded") = <<TrackEnded>>

(***************************************************************************)
(* Properties of the application loop driving the playback actor.          *)
(***************************************************************************)
\* a tick of the application loop has just ended
AppTickDone == app_pc = "idle" /\ ui # NoUi

EventsReachUi ==
    /\ event_q' # event_q =>
          \/ \E n \in 1..Len(event_q') : SubSeq(event_q', 1, Len(event_q') - n) = event_q
          \/ events = <<>> /\ events' = event_q /\ event_q' = <<>>
    /\ events' # events =>
          \/ events = <<>> /\ events' = event_q
          \/ events' = Tail(events) /\ ui'.handled = ui.handled + 1

\* the bridge is sent the playback status the reducer arrived at, once after
\* a tick, and only if it differs from the status last sent
StatusReachesBridge ==
    (app_pc = "events" /\ app_pc' = "idle") =>
        /\ ui'.published = IF np_state # mpris_state THEN <<np_state>> ELSE <<>>
        /\ mpris_state' = np_state

TrackEndedHandled(mode) == te # NoTE /\ te.mode = mode

\* a next track existed when the TrackEnded was handled
HadNext == IF te.index = None THEN te.len > 0 ELSE te.index + 1 < te.len

\* the cursor after advancing from the cursor the TrackEnded was handled at
Advanced == IF te.index = None THEN 0 ELSE te.index + 1

\* C8: in RepeatMode::Off, handling TrackEnded while a next track exists
\* advances the cursor by one and sends Play for the new current track; at the
\* last index it leaves the cursor, sends no Play and sets the application
\* state to Stopped, and after any run of TrackEnded events from no cursor the
\* cursor has not gone past the last index nor wrapped to index 0.
OffAdvancesThenStops ==
    /\ TrackEndedHandled("Off") =>
          IF HadNext
          THEN /\ current_index = Advanced
               /\ te.play = songs[current_index + 1]
          ELSE /\ current_index = te.index
               /\ te.play = None
               /\ np_state = "Stopped"
    /\ (repeat = "Off" /\ te_run # None /\ te_run >= 1 /\ songs # <<>>) =>
          current_index = IF te_run - 1 < Len(songs) THEN te_run - 1
                          ELSE Len(songs) - 1

\* a queue of two songs was exhausted: the TrackEnded after the last track
\* left the cursor at index 1 and stopped
OffQueueExhausted ==
    /\ TrackEndedHandled("Off")
    /\ te.len = 2 /\ te.index = 1
    /\ te_run = 3
    /\ np_state = "Stopped"

\* C9: in RepeatMode::All with a non-empty queue, handling TrackEnded at an
\* index before the last moves the cursor to the next index and plays it, at
\* the last index moves the cursor to index 0 and plays it, and the
\* (N+1)-th TrackEnded in a row from no cursor leaves the cursor at index 0.
AllAdvancesThenWraps ==
    /\ (TrackEndedHandled("All") /\ te.len > 0) =>
          /\ current_index = IF HadNext THEN Advanced ELSE 0
          /\ te.play = songs[current_index + 1]
    /\ (repeat = "All" /\ te_run # None /\ te_run >= 1 /\ songs # <<>>) =>
          current_index = (te_run - 1) % Len(songs)

\* the third TrackEnded in a row from no cursor wrapped a queue of two songs
AllQueueWrapped ==
    /\ TrackEndedHandled("All")
    /\ te.len = 2 /\ te.index = 1
    /\ te_run = 3
    /\ current_index = 0

\* C10: in RepeatMode::One, handling TrackEnded never moves the cursor, and
\* while the cursor designates a track it sends Play for that same track.
OneReplaysCurrent ==
    TrackEndedHandled("One") =>
        /\ current_index = te.index
        /\ CurrentSong(songs, current_index) # None =>
              te.play = CurrentSong(songs, current_index)

\* the second song of a queue of two was replayed
OneReplayedSecondSong ==
    /\ TrackEndedHandled("One")
    /\ te.len = 2 /\ te.index = 1
    /\ te.play = songs[2]

(***************************************************************************)
(* Properties of scrobbling.                                               *)
(***************************************************************************)
\* C11: between two track loads (set_song) the Scrobble intent is sent at
\* most once
ScrobbleOncePerLoad == scrobbles <= 1

\* C12: the Scrobble intent is sent for the loaded track only when that track
\* has been played past 30 seconds, so never for a track of 20 seconds
ScrobbleOnlyPastFloor ==
    (ui.scrobble # None /\ np_song # None)
        => (current_audio_data.song = np_song /\ position_ms > 30000)

(***************************************************************************)
(* Properties of the play queue.                                           *)
(***************************************************************************)
\* the last step that touched queue or cursor was the edit op
Edited(op) == qe.op = op

\* the last edit removed the song at an index of the queue
Removed == (Edited("remove") \/ Edited("remove_selected")) /\ qe.index < Len(qe.songs)

\* the last edit moved the song at qe.index to another index
Moved == Edited("move") /\ Moves(Len(qe.songs), qe.index, qe.direction)

\* the index the last edit moved the song to
MovedTo == MoveTarget(Len(qe.songs), qe.index, qe.direction)

\* the number of times song s occurs in ss
Count(ss, s) == Cardinality({i \in 1..Len(ss) : ss[i] = s})

\* no song occurs twice in ss
NoDuplicates(ss) == \A s \in Songs : Count(ss, s) <= 1

\* C13: the cursor is absent or a valid index into the songs, and removing
\* the track at the cursor clears the cursor
CursorValidAndClearedOnRemove ==
    /\ current_index = None \/ (0 <= current_index /\ current_index < Len(songs))
    /\ (Removed /\ qe.cursor = qe.index) => current_index = None

\* the track at the cursor has been removed from a queue of several songs
CursorTrackRemoved ==
    /\ Removed
    /\ qe.cursor = qe.index
    /\ Len(qe.songs) = MaxEditLen
    /\ current_index = None

\* C14 as stated: after a move from old to new the cursor is new if it was
\* old, shifted by one in the direction of the move if it lay strictly
\* between old and new, and unchanged otherwise
MoveShiftsCursorWithMove ==
    (Moved /\ qe.cursor # None) =>
        current_index =
            IF qe.cursor = qe.index THEN MovedTo
            ELSE IF qe.index < qe.cursor /\ qe.cursor < MovedTo THEN qe.cursor + 1
            ELSE IF MovedTo < qe.cursor /\ qe.cursor < qe.index THEN qe.cursor - 1
            ELSE qe.cursor

\* C14: after a move from old to new the cursor is new if it was old,
\* shifted by one against the direction of the move if it lay between old
\* (excluded) and new (included), and unchanged otherwise
MoveShiftsCursorAgainstMove ==
    (Moved /\ qe.cursor # None) =>
        current_index =
            IF qe.cursor = qe.index THEN MovedTo
            ELSE IF qe.index < qe.cursor /\ qe.cursor <= MovedTo THEN qe.cursor - 1
            ELSE IF MovedTo <= qe.cursor /\ qe.cursor < qe.index THEN qe.cursor + 1
            ELSE qe.cursor

\* a song has been moved onto the index of the cursor
MovedOntoCursor ==
    /\ Moved
    /\ qe.cursor = MovedTo
    /\ current_index = qe.index

\* C15: an edit that does not remove the cursor's track keeps the cursor on
\* its track: a removal before the cursor shifts it down by one, a removal
\* after it leaves it, a move and a shuffle leave it on the song it was on,
\* and a shuffle keeps the multiset of songs
EditsKeepCursorTrack ==
    /\ (Removed /\ qe.cursor # None /\ qe.index < qe.cursor)
          => (current_index = qe.cursor - 1
                /\ CurrentSong(songs, current_index) = CurrentSong(qe.songs, qe.cursor))
    /\ (Removed /\ qe.cursor # None /\ qe.index > qe.cursor)
          => (current_index = qe.cursor
                /\ CurrentSong(songs, current_index) = CurrentSong(qe.songs, qe.cursor))
    /\ ((Edited("add") \/ Edited("add_all")) /\ qe.cursor # None)
          => (current_index = qe.cursor
                /\ CurrentSong(songs, current_index) = CurrentSong(qe.songs, qe.cursor))
    /\ ((Edited("move") \/ Edited("shuffle")) /\ qe.cursor # None)
          => CurrentSong(songs, current_index) = CurrentSong(qe.songs, qe.cursor)
    /\ Edited("shuffle")
          => \A s \in Songs : Count(songs, s) = Count(qe.songs, s)

\* a queue of distinct songs has been shuffled into another order with the
\* cursor on a song that was not the first
ShuffledUnderCursor ==
    /\ Edited("shuffle")
    /\ NoDuplicates(qe.songs)
    /\ Len(qe.songs) = MaxEditLen
    /\ qe.cursor # None /\ qe.cursor > 0
    /\ songs # qe.songs
    /\ CurrentSong(songs, current_index) = CurrentSong(qe.songs, qe.cursor)

(***************************************************************************)
(* Properties of Stop, Pause and the position estimator.                   *)
(***************************************************************************)
\* C16: a Stop that is processed leaves is_playing false, position_ms 0 and
\* no buffered audio and emits StateChanged(Stopped), and from then until a
\* Play succeeds every Seek finds no audio, changes nothing and emits nothing
StopHoldsUntilPlay ==
    /\ (since.cmd = "Stop" /\ since.ok)
          => (~is_playing /\ position_ms = 0 /\ current_audio_data = NoAudio)
    /\ (tick.cmd = "Stop" /\ tick.ok) => tick.events[1] = StateChanged("Stopped")
    /\ (tick.cmd = "Seek" /\ since.stopped) => (~tick.loaded /\ tick.events = <<>>)

\* C17: once a Pause is processed, and until a Resume, Seek, Play or Stop is,
\* is_playing is false and position_ms is what it was at the Pause; the tick
\* of the Pause emits StateChanged(Paused), and neither it nor a later tick
\* emits Progress
PauseStopsEstimator ==
    /\ since.cmd = "Pause"
          => (/\ ~is_playing
              /\ position_ms = since.pos
              /\ OfType(tick.events, "Progress") = <<>>)
    /\ tick.cmd = "Pause" => tick.events[1] = StateChanged("Paused")

\* a tick has run a second or more after the Pause of a track that had
\* played for a second or more
TickedWhilePaused ==
    /\ since.cmd = "Pause"
    /\ since.pos > 0
    /\ now > since.at
    /\ tick.cmd = "None"
    /\ TickDone

\* C18: while the actor plays after a Play, Resume or Seek that took effect,
\* position_ms is the position that command left plus the time from its
\* processing to the last progress update: no time before it is added
EstimatorCountsFromCommand ==
    (since.ok /\ since.cmd \in {"Play", "Resume", "Seek"} /\ is_playing)
        => (/\ last_tick_time # None
            /\ last_tick_time >= since.at
            /\ position_ms = since.pos + (last_tick_time - since.at) * 1000)

\* a track paused for a second or more has been resumed and has progressed
ResumedAndProgressed ==
    /\ since.cmd = "Resume"
    /\ since.at = MaxTime - 1
    /\ since.pos = 0
    /\ is_playing
    /\ position_ms = 1000
    /\ TickDone

\* C19: a tick whose progress step finds the actor playing emits one Progress
\* event with the position it has just stored and the duration declared for
\* the song of the most recent Play, and from that Play on duration_ms is
\* that declared duration and not the one of an earlier track, as long as the
\* thread runs
ProgressCarriesDeclaredDuration ==
    /\ (TickDone /\ is_playing)
          => (/\ Len(OfType(tick.events, "Progress")) = 1
              /\ OfType(tick.events, "Progress")[1].info.position = position_ms
              /\ OfType(tick.events, "Progress")[1].info.duration = current_duration)
    /\ (tick.cmd = "Play" /\ pc # "exited")
          => duration_ms = IF SongDuration(tick.arg) = None THEN 0
                           ELSE SongDuration(tick.arg) * 1000

(***************************************************************************)
(* Properties of the volume.                                               *)
(***************************************************************************)
\* C20: the shared volume is a percentage between 0 and 100
SharedVolumeInRange == 0 <= volume /\ volume <= 100

\* the SetVolume commands that are still in the command channel
QueuedVolumes == OfType(cmd_q, "SetVolume")

\* the percentage of the last call of Player::set_volume: the one of the last
\* SetVolume command still queued, or the one the actor handled last
LastVolumeSet ==
    IF QueuedVolumes # <<>> THEN QueuedVolumes[Len(QueuedVolumes)].arg
    ELSE current_volume

\* C21: the shared volume is the percentage of the last set_volume call from
\* the moment of the call, also while its SetVolume command is still queued;
\* the actor handling the command does not change it
SharedVolumeSetAtIssue ==
    volume = IF LastVolumeSet \in RoundedDown THEN LastVolumeSet - 1 ELSE LastVolumeSet

\* a SetVolume command waits behind a blocking fetch while the shared volume
\* already reads its percentage and the actor still applies the previous one
VolumeQueuedBehindFetch ==
    /\ pc = "fetch"
    /\ QueuedVolumes # <<>>
    /\ volume = LastVolumeSet
    /\ current_volume # volume

(***************************************************************************)
(* Properties of failures and of termination.                              *)
(***************************************************************************)
\* C22: a player command whose send fails because the actor thread has
\* exited does not end the application loop
FailedSendNotFatal == app_pc # "failed"

\* C23: a failure of the output device (at actor start, or when Play, Stop or
\* Seek creates a new sink) does not make the actor leave its command loop
DeviceFailureKeepsLoop == pc # "exited"

\* the commands still in the channel are the last ones of those that were
\* queued when the handle was dropped
LeftToHandle ==
    \E k \in 0..Len(handle.left) : cmd_q = SubSeq(handle.left, k + 1, Len(handle.left))

\* the actor thread has returned
Terminated == pc \in {"done", "exited"}

\* C24: once the Player handle is dropped the actor takes the commands that
\* were queued, oldest first and one per iteration, and handles each; it leaves
\* its loop through the disconnection only when none is left, emitting nothing
\* for it; an event sent to the dropped receiver is lost and the iteration
\* goes on; and the thread terminates.
DrainsThenTerminates ==
    /\ [](handle.dropped => (LeftToHandle /\ event_q = <<>>))
    /\ [](pc = "done" => (handle.dropped /\ cmd_q = <<>>))
    /\ [][ /\ (handle.dropped /\ cmd_q' # cmd_q) =>
               /\ cmd_q # <<>>
               /\ cmd_q' = Tail(cmd_q)
               /\ tick'.cmd = Head(cmd_q).type
               /\ tick'.arg = Head(cmd_q).arg
           /\ (pc # "done" /\ pc' = "done") =>
               /\ pc = "recv"
               /\ tick' = tick
               /\ event_q' = event_q
           /\ (handle.dropped /\ NewEvents # <<>>) => ~Terminated'
       ]_vars
    /\ (handle.dropped ~> Terminated)

\* the handle was dropped with a full command channel and the actor has
\* handled all of it and left its loop
DrainedAndDone ==
    /\ pc = "done"
    /\ Len(handle.left) = MaxCmdQ
    /\ tick.cmd = handle.left[MaxCmdQ].type

(***************************************************************************)
(* Properties of the bridge.                                               *)
(***************************************************************************)
\* every value the bridge publishes is the one the last sync left with it
NothingToPublish ==
    /\ np_song = bridge.track_id
    /\ np_state = mpris_state
    /\ np_position = bridge.position
    /\ np_volume = bridge.volume
    /\ np_shuffle = bridge.shuffle
    /\ repeat = bridge.repeat
    /\ \E i \in 1..Len(bridge.sent) :
          bridge.sent[i] = MprisCommand("SetCanGoNext", songs # <<>>)

\* C25: a tick that finds every published value as the last sync left it
\* sends no command to the bridge
UnchangedSyncSendsNothing ==
    [][(app_pc = "events" /\ app_pc' = "idle" /\ NothingToPublish)
          => bridge'.sent = <<>>]_vars

\* C26: the intent an event of the bridge was translated into is the one it
\* is translated into whatever the shuffle flag of the application, no event
\* of another kind is translated into an intent of the same kind, and an
\* event's position, volume or seek offset is the argument of its intent
TranslationOneToOne ==
    bridge.event.type # "None" =>
        /\ \A s \in BOOLEAN : Translate(bridge.event, s) = bridge.intent
        /\ \A e \in MprisEventInputs, s \in BOOLEAN :
              e.type # bridge.event.type =>
                  Translate(e, s).type # bridge.intent.type
        /\ bridge.event.type \in {"SetVolume", "Seek"} =>
              bridge.intent.arg = bridge.event.arg

\* C27: the bridge loop ends only on Shutdown or on the closed command
\* channel, after the commands queued before; a dropped handle has left
\* Shutdown in the channel of a running thread and no event is kept for a
\* dropped receiver; and once the handle is dropped the thread returns.
BridgeShutsDown ==
    /\ [][(mpris.pc = "loop" /\ mpris'.pc = "done") =>
              /\ mpris.commands # <<>> => Head(mpris.commands).type = "Shutdown"
              /\ mpris.commands = <<>> => mpris.dropped]_vars
    /\ [][(mpris.pc = "loop" /\ mpris'.pc = "loop"
                /\ Len(mpris'.commands) < Len(mpris.commands)) =>
              mpris'.commands = Tail(mpris.commands)]_vars
    /\ []((mpris.dropped /\ mpris.pc # "done") =>
              \E i \in 1..Len(mpris.commands) : mpris.commands[i].type = "Shutdown")
    /\ [](mpris.dropped => mpris.events = <<>>)
    /\ (mpris.dropped ~> mpris.pc = "done")

\* the handle was dropped while commands were queued and the thread has
\* returned
BridgeDoneAfterDrop ==
    /\ mpris.dropped
    /\ mpris.pc = "done"

(***************************************************************************)
(* Properties of the decoder.                                              *)
(***************************************************************************)
\* the packets the call of decode_next_frame in progress, or the last one,
\* has read
PacketsRead == SubSeq(source.stream, source.from, source.at - 1)

\* the packets of ps that failed to decode
Failures(ps) == Len(SelectSeq(ps, LAMBDA k : k = "bad"))

CycleRepeatIsSuccessor ==
    /\ [][repeat' # repeat =>
              /\ repeat' = CASE repeat = "Off" -> "All"
                              [] repeat = "All" -> "One"
                              [] repeat = "One" -> "Off"
              /\ UNCHANGED <<actor_vars, library, app_pc, client, queue_vars, np_state,
                             events, mpris_vars, np_vars, np_volume, edit_vars>>]_vars
    /\ [](RepeatNext(RepeatNext(RepeatNext(repeat))) = repeat)
    /\ [](\A m \in {"Off", "All", "One"} :
            /\ RepeatNext(m) # m
            /\ RepeatNext(RepeatNext(m)) # m
            /\ RepeatNext(RepeatNext(RepeatNext(m))) = m)

\* CycleRepeat has been applied twice to the initial mode, with songs queued
\* and shuffle on
CycledToOne ==
    /\ repeat = "One"
    /\ songs # <<>>
    /\ np_shuffle

\* C30: the volume curve gives 0.0 for every argument up to 0.0 and 1.0 for
\* every argument from 1.0 on, stays within 0.0 and 1.0, and gives no less
\* for an argument of 0.0 to 1.0 than for the argument one hundredth below
VolumeCurveClampedMonotone ==
    curve # NoCurve =>
        /\ curve.amplitude = LinearToLogVolume(curve.linear)
        /\ curve.linear <= 0 => curve.amplitude = 0
        /\ curve.linear >= 100 => curve.amplitude = 1000
        /\ curve.amplitude \in 0..1000
        /\ curve.linear \in 1..100 =>
              LinearToLogVolume(curve.linear - 1) <= curve.amplitude

\* the curve was applied to 0.5, which gives 0.176
HalfVolumeAmplitude ==
    /\ curve.linear = 50
    /\ curve.amplitude = 176

\* the keys of a list of query parameters, in order
Keys(params) == [i \in 1..Len(params) |-> params[i][1]]

\* C31: the query parameters of token credentials are exactly the keys u, t, s
\* in this order, with u the given username; those of API-key credentials are
\* exactly the one key apiKey carrying the given key
QueryParamsKeys ==
    auth.params # <<>> =>
        /\ auth.auth.kind = "Token" =>
             /\ Keys(auth.params) = <<"u", "t", "s">>
             /\ auth.params[1][2] = auth.given.username
        /\ auth.auth.kind = "ApiKey" =>
             /\ Keys(auth.params) = <<"apiKey">>
             /\ auth.params[1][2] = auth.given.api_key

\* the parameters of regenerated token credentials have been asked for
TokenParamsMade ==
    /\ auth.params # <<>>
    /\ auth.auth.kind = "Token"
    /\ auth.given.username = <<"a", "b">>
    /\ auth.auth.salt = <<"z", "0">>

(***************************************************************************)
(* Stale events of a track that is no longer the current one.              *)
(***************************************************************************)
\* the Play command of the loaded track has not been carried out yet: it is
\* in the command channel, or the actor is fetching its audio
PlayPending ==
    \/ \E i \in 1..Len(cmd_q) : cmd_q[i].type = "Play"
    \/ pc = "fetch" /\ cmd.type = "Play"

\* C32: the scrobble trigger never fires for a newly loaded track from the
\* progress of the previous track: when it fires, the Play of the loaded
\* track has been carried out, so the position it fired on is not one that
\* was emitted before the track began
ScrobbleNotFromStaleProgress ==
    (ui.scrobble # None /\ np_song # None) => ~PlayPending

\* C33: a TrackEnded that is handled while the Play of a newly loaded track
\* is still pending was emitted for the track before it, and handling it
\* leaves the cursor where the intent that loaded the new track put it
StaleTrackEndedKeepsCursor ==
    [][(Handling("TrackEnded") /\ PlayPending /\ events' = Tail(events))
          => current_index' = current_index]_vars

\* C34: once a TrackEnded has been handled, in any repeat mode and for any
\* queue and cursor, a Play command has been sent or the application state
\* is Stopped
TrackEndedPlaysOrStops ==
    te # NoTE => (te.play # None \/ np_state = "Stopped")

(***************************************************************************)
(* Commands that fail or find no audio.                                    *)
(***************************************************************************)
\* the last playback command the actor handled is a Seek that failed or
\* found nothing to seek in
SeekFailedLast == since.cmd = "Seek" /\ ~since.ok

\* C35: a failed Seek causes no TrackEnded: on audio that does not run out,
\* no TrackEnded is emitted in the iteration of the failed Seek nor in a
\* later one, as long as no further playback command is handled
FailedSeekNoTrackEnded ==
    [][SeekFailedLast' => OfType(NewEvents, "TrackEnded") = <<>>]_vars

\* C36: the audio the actor holds is the payload fetched for the most recent
\* Play: once a Play has been handled, whatever playable audio is buffered
\* (the audio a following Seek would start) is that of the Play's track
BufferedAudioOfLastPlay ==
    (tick.cmd = "Play" /\ pc \in {"check", "recv"} /\ current_audio_data.decodable)
        => current_audio_data.song = tick.arg

\* C37: TrackEnded is emitted only for audio loaded by a successful Play: a
\* tick that handles a Pause or a Resume while no audio is loaded emits no
\* TrackEnded
NoTrackEndedWithoutAudio ==
    (tick.cmd \in {"Pause", "Resume"} /\ ~tick.loaded)
        => OfType(tick.events, "TrackEnded") = <<>>

(***************************************************************************)
(* Inbound media-control events.                                           *)
(***************************************************************************)
\* C38: handling an inbound Pause never takes the application from Paused to
\* Playing, and handling an inbound Play never takes it from Playing to
\* Paused
PauseNeverResumes ==
    [][bridge' # bridge =>
          /\ bridge'.event.type = "Pause" => ~(np_state = "Paused" /\ np_state' = "Playing")
          /\ bridge'.event.type = "Play" => ~(np_state = "Playing" /\ np_state' = "Paused")
      ]_vars

(***************************************************************************)
(* The volume the application shows and the shared player volume.          *)
(***************************************************************************)
\* C39: once the application is initialised, and after every volume intent,
\* the volume it displays and steps from (now_playing.volume) equals the
\* shared player volume
ShownVolumeIsPlayerVolume ==
    (app_pc = "idle" /\ pc # "exited") => np_volume = volume

(***************************************************************************)
(* The reference timestamp of the position estimator.                      *)
(***************************************************************************)
\* C40: whenever the actor reaches the progress update with is_playing true,
\* the reference timestamp last_tick_time is set, so the branch that
\* initialises a missing timestamp is never taken
ReferenceSetWhilePlaying ==
    (pc = "check" /\ PlayingAfterCheck) => last_tick_time # None

\* a tick that resumed paused playback has made its progress update and sent
\* Progress
ResumedTickProgressed ==
    /\ TickDone
    /\ tick.cmd = "Resume"
    /\ tick.loaded
    /\ is_playing
    /\ OfType(tick.events, "Progress") # <<>>

====
